---- MODULE Spec2Model ----
(***************************************************************************)
(* Verification model of the static-analysis core of the eBPF verifier:    *)
(*   - the control-flow graph cfg_t / basic_block_t and cfg_t::simplify,   *)
(*   - the interleaved forward fixpoint iterator,                          *)
(*   - the SplitDBM abstract domain.                                       *)
(* Each part has its own specification; the variables of the other parts   *)
(* stay at their initial value.                                            *)
(***************************************************************************)
EXTENDS Integers, Sequences, FiniteSets, TLC

VARIABLES cfg, lastOp, aborted,          \* the CFG part
          prog, _pre, _post, _skip, pc, stack, \* the fixpoint iterator
          dbm, dOp, nOps, dSelf, dArg          \* the SplitDBM part

cfgVars == <<cfg, lastOp, aborted>>
fwdVars == <<prog, _pre, _post, _skip, pc, stack>>
dbmVars == <<dbm, dOp, nOps, dSelf, dArg>>
vars == <<cfgVars, fwdVars, dbmVars>>
\* What the operations of one part leave alone.
notCfgVars == <<fwdVars, dbmVars>>
notFwdVars == <<cfgVars, dbmVars>>
notDbmVars == <<cfgVars, fwdVars>>

(***************************************************************************)
(* Bounds of the CFG part.                                                 *)
(***************************************************************************)
\* labels are 0..MaxLabel (label_t is totally ordered)
MaxLabel == 2
\* total number of statements ever inserted into blocks
MaxStmts == 2

Labels == 0..MaxLabel

Min(S) == CHOOSE x \in S : \A y \in S : x <= y

(***************************************************************************)
(* cfg_t: m_entry, m_exit, m_blocks.  m_blocks is the key set of the map;  *)
(* m_ts, m_prev, m_next hold the fields of each basic_block_t (empty for a *)
(* label that is not a key).  nstmts numbers the statements, so that each  *)
(* inserted statement is distinguishable.                                  *)
(***************************************************************************)
NoEdges == [l \in Labels |-> {}]
NoStmts == [l \in Labels |-> <<>>]

\* cfg_t(entry, exit): both blocks are emplaced, empty and unconnected
NewCfg(entry, exit) ==
  [m_entry |-> entry, m_exit |-> exit, m_blocks |-> {entry, exit},
   m_ts |-> NoStmts, m_prev |-> NoEdges, m_next |-> NoEdges, nstmts |-> 0]

in_degree(c, l) == Cardinality(c.m_prev[l])
out_degree(c, l) == Cardinality(c.m_next[l])

\* get_child / get_parent: the single element of the set (asserted in the code)
get_child(c, l) == Min(c.m_next[l])
get_parent(c, l) == Min(c.m_prev[l])

\* basic_block_t::operator>> : a >> b
ConnectDropsPrev(c, a, b) ==
  [c EXCEPT !.m_next[a] = @ \cup {b}]
Connect(c, a, b) ==
  [c EXCEPT !.m_next[a] = @ \cup {b}, !.m_prev[b] = @ \cup {a}]

\* basic_block_t::operator-= : a -= b
Disconnect(c, a, b) ==
  [c EXCEPT !.m_next[a] = @ \ {b}, !.m_prev[b] = @ \ {a}]

\* basic_block_t::move_back: all statements of other at the back of this
move_backPrepends(c, l, other) ==
  [c EXCEPT !.m_ts[l] = c.m_ts[other] \o @]
move_back(c, l, other) ==
  [c EXCEPT !.m_ts[l] = @ \o c.m_ts[other]]

\* basic_block_t::insert(Instruction): append one statement
InsertStmt(c, l) ==
  [c EXCEPT !.m_ts[l] = Append(@, c.nstmts + 1), !.nstmts = @ + 1]

\* cfg_t::insert(label): idempotent
InsertBlock(c, l) ==
  IF l \in c.m_blocks THEN c ELSE [c EXCEPT !.m_blocks = @ \cup {l}]

RECURSIVE DisconnectAll(_, _)
DisconnectAll(c, E) ==
  IF E = {} THEN c
  ELSE LET e == CHOOSE x \in E : TRUE
       IN DisconnectAll(Disconnect(c, e[1], e[2]), E \ {e})

\* m_blocks.erase(label): the block and its fields are destroyed
EraseBlock(c, l) ==
  [c EXCEPT !.m_blocks = @ \ {l}, !.m_ts[l] = <<>>,
            !.m_prev[l] = {}, !.m_next[l] = {}]

\* a remove that refuses the entry block and forgets the exit block
RemoveFails_EntryOnly(c, l) ==
  l = c.m_entry \/ l \notin c.m_blocks

\* cfg_t::remove: the error cases; CRAB_ERROR ends the call
RemoveFails(c, l) ==
  l = c.m_entry \/ l = c.m_exit \/ l \notin c.m_blocks

\* cfg_t::remove, past the checks: collect the dead edges (self loops are
\* skipped), disconnect each, erase the block
RemoveKeepsEdges(c, l) == EraseBlock(c, l)
RemoveBlock(c, l) ==
  LET dead_edges == {<<id, l>> : id \in c.m_prev[l] \ {l}}
                    \cup {<<l, id>> : id \in c.m_next[l] \ {l}}
  IN EraseBlock(DisconnectAll(c, dead_edges), l)

RECURSIVE ConnectAll(_, _, _)
ConnectAll(c, a, S) ==
  IF S = {} THEN c
  ELSE LET b == Min(S) IN ConnectAll(Connect(c, a, b), a, S \ {b})

\* cfg_t::simplify, the guard of the inner while loop: bb has one child, it
\* is another block and bb is its only parent
CanMerge(c, label) ==
  /\ out_degree(c, label) = 1
  /\ get_child(c, label) # label
  /\ in_degree(c, get_child(c, label)) = 1

\* cfg_t::simplify, one pass of the inner while loop up to the call of remove
SpliceKeepsExit(c, label) ==
  LET next_bb == get_child(c, label)
      c2 == move_back(c, label, next_bb)
      c3 == Disconnect(c2, label, next_bb)
  IN ConnectAll(c3, label, c.m_next[next_bb])
Splice(c, label) ==
  LET next_bb == get_child(c, label)
      c1 == IF next_bb = c.m_exit THEN [c EXCEPT !.m_exit = label] ELSE c
      c2 == move_back(c1, label, next_bb)
      c3 == Disconnect(c2, label, next_bb)
  IN ConnectAll(c3, label, c.m_next[next_bb])

\* one whole pass of the inner while loop, when remove(next_bb) succeeds
MergeStep(c, label) == RemoveBlock(Splice(c, label), get_child(c, label))

\* an inner loop that stops after one pass (an if for the while)
MergeLoop_Once(c, label, worklist) ==
  IF ~CanMerge(c, label) THEN [c |-> c, worklist |-> worklist, err |-> FALSE]
  ELSE LET next_bb == get_child(c, label)
           s == Splice(c, label)
       IN IF RemoveFails(s, next_bb)
          THEN [c |-> s, worklist |-> worklist \ {next_bb}, err |-> TRUE]
          ELSE [c |-> RemoveBlock(s, next_bb), worklist |-> worklist \ {next_bb},
                err |-> FALSE]

\* the inner while loop; the result carries the worklist and the error flag
RECURSIVE MergeLoop(_, _, _)
MergeLoop(c, label, worklist) ==
  IF ~CanMerge(c, label) THEN [c |-> c, worklist |-> worklist, err |-> FALSE]
  ELSE LET next_bb == get_child(c, label)
           s == Splice(c, label)
       IN IF RemoveFails(s, next_bb)
          THEN [c |-> s, worklist |-> worklist \ {next_bb}, err |-> TRUE]
          ELSE MergeLoop(RemoveBlock(s, next_bb), label, worklist \ {next_bb})

\* the outer loop of cfg_t::simplify over the worklist, smallest label first
RECURSIVE SimplifyLoop(_, _)
SimplifyLoop(c, worklist) ==
  IF worklist = {} THEN [c |-> c, err |-> FALSE]
  ELSE LET label == Min(worklist)
           rest == worklist \ {label}
       IN IF in_degree(c, label) = 1 /\ out_degree(c, get_parent(c, label)) = 1
          THEN SimplifyLoop(c, rest)
          ELSE LET r == MergeLoop(c, label, rest)
               IN IF r.err THEN [c |-> r.c, err |-> TRUE]
                  ELSE SimplifyLoop(r.c, r.worklist)

simplify(c) == SimplifyLoop(c, c.m_blocks)

(***************************************************************************)
(* The operations of the CFG as actions.  A call that ends in CRAB_ERROR   *)
(* sets aborted; nothing runs after it.  lastOp tells the kind of the last *)
(* call: "new" (the constructor), "build" (insert, operator>>, operator-=),*)
(* "remove", "simplify".                                                   *)
(***************************************************************************)
CfgInit ==
  /\ \E entry \in Labels, exit \in Labels : cfg = NewCfg(entry, exit)
  /\ lastOp = "new"
  /\ aborted = FALSE
  /\ prog = [blocks |-> {}] /\ _pre = <<>> /\ _post = <<>>
  /\ _skip = TRUE /\ pc = 0 /\ stack = <<>>
  /\ dbm = <<>> /\ dOp = "new" /\ nOps = 0 /\ dSelf = <<>> /\ dArg = <<>>

DoInsert(l) ==
  /\ ~aborted
  /\ UNCHANGED notCfgVars
  /\ cfg' = InsertBlock(cfg, l)
  /\ lastOp' = "build"
  /\ UNCHANGED aborted

\* cfg_t::get_node(label): CRAB_ERROR when the label is no key of m_blocks
DoGetNode(l) ==
  /\ ~aborted
  /\ UNCHANGED notCfgVars
  /\ lastOp' = "get_node"
  /\ UNCHANGED cfg
  /\ aborted' = (l \notin cfg.m_blocks)

DoInsertStmt(l) ==
  /\ ~aborted
  /\ UNCHANGED notCfgVars
  /\ l \in cfg.m_blocks
  /\ cfg.nstmts < MaxStmts
  /\ cfg' = InsertStmt(cfg, l)
  /\ lastOp' = "build"
  /\ UNCHANGED aborted

DoConnect(a, b) ==
  /\ ~aborted
  /\ UNCHANGED notCfgVars
  /\ a \in cfg.m_blocks /\ b \in cfg.m_blocks
  /\ cfg' = Connect(cfg, a, b)
  /\ lastOp' = "build"
  /\ UNCHANGED aborted

DoDisconnect(a, b) ==
  /\ ~aborted
  /\ UNCHANGED notCfgVars
  /\ a \in cfg.m_blocks /\ b \in cfg.m_blocks
  /\ cfg' = Disconnect(cfg, a, b)
  /\ lastOp' = "build"
  /\ UNCHANGED aborted

DoRemove(l) ==
  /\ ~aborted
  /\ UNCHANGED notCfgVars
  /\ lastOp' = "remove"
  /\ IF RemoveFails(cfg, l)
     THEN aborted' = TRUE /\ UNCHANGED cfg
     ELSE cfg' = RemoveBlock(cfg, l) /\ UNCHANGED aborted

DoSimplify ==
  /\ ~aborted
  /\ UNCHANGED notCfgVars
  /\ lastOp' = "simplify"
  /\ LET r == simplify(cfg)
     IN cfg' = r.c /\ aborted' = r.err

CfgNext ==
  \/ \E l \in Labels : DoInsert(l)
  \/ \E l \in Labels : DoGetNode(l)
  \/ \E l \in Labels : DoInsertStmt(l)
  \/ \E a \in Labels, b \in Labels : DoConnect(a, b)
  \/ \E a \in Labels, b \in Labels : DoDisconnect(a, b)
  \/ \E l \in Labels : DoRemove(l)
  \/ DoSimplify

Spec == CfgInit /\ [][CfgNext]_vars

(***************************************************************************)
(* The forward fixpoint iterator (interleaved_fwd_fixpoint_iterator_t).    *)
(*                                                                         *)
(* The abstract values are those of a SplitDBM over one variable x with    *)
(* x >= 0: the two edges between x and the zero vertex are a lower and an  *)
(* upper bound, <<lb, ub>>; ub = PosInf is "no edge".  Bot is bottom.      *)
(***************************************************************************)
MaxVal == 5
PosInf == MaxVal + 1
Bot == <<1, 0>>
Top == <<0, PosInf>>

is_bottom(d) == d[1] > d[2]

Max2(a, b) == IF a >= b THEN a ELSE b
Min2(a, b) == IF a <= b THEN a ELSE b

\* SplitDBM::operator<= : bottom is below everything; otherwise every bound
\* of o is implied by a bound of self.
leq(d, o) ==
  IF is_bottom(d) THEN TRUE
  ELSE IF is_bottom(o) THEN FALSE
  ELSE o[1] <= d[1] /\ d[2] <= o[2]

\* SplitDBM::operator| : the other operand if one is bottom, else the
\* pointwise weakest bounds.
join(d, o) ==
  IF is_bottom(d) THEN o
  ELSE IF is_bottom(o) THEN d
  ELSE <<Min2(d[1], o[1]), Max2(d[2], o[2])>>

\* SplitDBM::operator& : bottom if one is bottom or the bounds contradict,
\* else the pointwise strongest bounds.
meet(d, o) ==
  IF is_bottom(d) \/ is_bottom(o) THEN Bot
  ELSE LET r == <<Max2(d[1], o[1]), Min2(d[2], o[2])>>
       IN IF is_bottom(r) THEN Bot ELSE r

\* SplitDBM::widen : the other operand if one is bottom, else a bound of
\* self is kept only when o does not weaken it.
widen(d, o) ==
  IF is_bottom(d) THEN o
  ELSE IF is_bottom(o) THEN d
  ELSE <<IF o[1] >= d[1] THEN d[1] ELSE 0,
         IF o[2] <= d[2] THEN d[2] ELSE PosInf>>

\* SplitDBM::narrow : bottom if one is bottom, o if self is top, else self.
narrow(d, o) ==
  IF is_bottom(d) \/ is_bottom(o) THEN Bot
  ELSE IF d = Top THEN o
  ELSE d

(***************************************************************************)
(* Instructions and their abstract transformers.  All are monotone.        *)
(***************************************************************************)
Inc == [op |-> "inc", k |-> 0]
Dec == [op |-> "dec", k |-> 0]
AssumeLe(k) == [op |-> "le", k |-> k]
AssumeGe(k) == [op |-> "ge", k |-> k]

Transfer(d, ins) ==
  IF is_bottom(d) THEN Bot
  ELSE CASE ins.op = "inc" ->
              <<Min2(d[1] + 1, MaxVal),
                IF d[2] >= MaxVal THEN PosInf ELSE d[2] + 1>>
         [] ins.op = "dec" ->
              <<Max2(d[1] - 1, 0),
                IF d[2] = PosInf THEN PosInf ELSE Max2(d[2] - 1, 0)>>
         [] ins.op = "le" -> meet(d, <<0, ins.k>>)
         [] ins.op = "ge" -> meet(d, <<ins.k, PosInf>>)

RECURSIVE RunBlock(_, _)
RunBlock(d, code) ==
  IF code = <<>> THEN d
  ELSE RunBlock(Transfer(d, Head(code)), Tail(code))

BlockCodes ==
  { <<>>, <<Inc>>, <<Dec>>,
    <<AssumeLe(1), Inc>>, <<AssumeLe(MaxVal), Dec>>,
    <<AssumeLe(3), Dec, Dec>>, <<AssumeGe(3)>>, <<AssumeGe(3), Inc>> }

(***************************************************************************)
(* The analysed programs: a CFG, its weak topological order as a sequence  *)
(* of tokens (a vertex; the head of a cycle; the end of a cycle's body),   *)
(* the code of each block and the entry state.                             *)
(***************************************************************************)
FLabels == 0 .. 4
AnyCode == [n \in FLabels |-> BlockCodes]

Vertex(n) == [kind |-> "vertex", node |-> n]
Begin(n) == [kind |-> "begin", node |-> n]
End(n) == [kind |-> "end", node |-> n]

\* 0 1 2
ShapeLine ==
  [blocks |-> {0, 1, 2}, edges |-> {<<0, 1>>, <<1, 2>>},
   wto |-> <<Vertex(0), Vertex(1), Vertex(2)>>, codes |-> AnyCode]
\* 0 (1) 2
ShapeSelfLoop ==
  [blocks |-> {0, 1, 2}, edges |-> {<<0, 1>>, <<1, 1>>, <<1, 2>>},
   wto |-> <<Vertex(0), Begin(1), End(1), Vertex(2)>>, codes |-> AnyCode]
\* (0 1) 2
ShapeEntryHead ==
  [blocks |-> {0, 1, 2}, edges |-> {<<0, 1>>, <<1, 0>>, <<1, 2>>},
   wto |-> <<Begin(0), Vertex(1), End(0), Vertex(2)>>, codes |-> AnyCode]
\* 0 (1 2 3)
ShapeTwoBranches ==
  [blocks |-> {0, 1, 2, 3},
   edges |-> {<<0, 1>>, <<1, 2>>, <<1, 3>>, <<2, 1>>, <<3, 1>>},
   wto |-> <<Vertex(0), Begin(1), Vertex(2), Vertex(3), End(1)>>, codes |-> AnyCode]
\* 0 (1 (2 3))
ShapeNested ==
  [blocks |-> {0, 1, 2, 3},
   edges |-> {<<0, 1>>, <<1, 2>>, <<2, 3>>, <<3, 2>>, <<2, 1>>},
   wto |-> <<Vertex(0), Begin(1), Begin(2), Vertex(3), End(2), End(1)>>, codes |-> AnyCode]
\* 0 (1 (2 3 4)): the inner cycle has two branches; the entry block and the
\* inner head are empty.
ShapeNestedBranches ==
  [blocks |-> {0, 1, 2, 3, 4},
   edges |-> {<<0, 1>>, <<1, 2>>, <<2, 3>>, <<2, 4>>, <<3, 2>>, <<4, 2>>, <<2, 1>>},
   wto |-> <<Vertex(0), Begin(1), Begin(2), Vertex(3), Vertex(4), End(2), End(1)>>,
   codes |-> [n \in FLabels |-> IF n \in {0, 2} THEN {<<>>} ELSE BlockCodes]]

\* 4 (3) 0 1: block 4 and the self-loop 3 cannot be reached from the entry
\* and precede it in the order; 3 is a second predecessor of 1.
ShapeSkipped ==
  [blocks |-> {0, 1, 3, 4},
   edges |-> {<<4, 3>>, <<3, 3>>, <<3, 1>>, <<0, 1>>},
   wto |-> <<Vertex(4), Begin(3), End(3), Vertex(0), Vertex(1)>>,
   codes |-> [n \in FLabels |-> IF n \in {3, 4} THEN {<<Inc>>} ELSE BlockCodes]]

Shapes ==
  {ShapeLine, ShapeSelfLoop, ShapeEntryHead, ShapeTwoBranches, ShapeNested,
   ShapeNestedBranches, ShapeSkipped}

EntryStates == {Top, <<0, 0>>}

prev_nodes(p, n) == {a \in p.blocks : <<a, n>> \in p.edges}

\* The position of a label in the order, and the end of the cycle that
\* begins at position i.
PosOf(p, n) ==
  CHOOSE i \in 1 .. Len(p.wto) : p.wto[i].kind # "end" /\ p.wto[i].node = n
MatchEnd(p, i) ==
  CHOOSE j \in 1 .. Len(p.wto) : p.wto[j].kind = "end" /\ p.wto[j].node = p.wto[i].node

\* wto_t::nesting : the positions of the heads of the cycles that enclose
\* the label, outermost first (a head is not inside its own cycle).
nesting(p, n) ==
  {i \in 1 .. Len(p.wto) :
     p.wto[i].kind = "begin" /\ i < PosOf(p, n) /\ PosOf(p, n) < MatchEnd(p, i)}

\* wto_nesting_t::operator> : b's chain is a strict prefix of a's chain.
\* The enclosing cycles of a label are nested in one another, so a chain is
\* a prefix of another exactly when it is a subset of it.
nesting_gt(a, b) == b \subseteq a /\ a # b

\* member_component_visitor : is the node the head of the cycle that begins
\* at position i, or inside it.
is_member(p, i, n) ==
  \E j \in i .. MatchEnd(p, i) : p.wto[j].kind # "end" /\ p.wto[j].node = n

RECURSIVE JoinOver(_, _)
JoinOver(f, S) ==
  IF S = {} THEN Bot
  ELSE LET a == Min(S) IN join(JoinOver(f, S \ {a}), f[a])

join_all_prevs(p, post, n) == JoinOver(post, prev_nodes(p, n))

\* a transformer that copies pre and runs no instruction
transform_to_post_CopyOnly(p, n, pre) == pre

transform_to_post(p, n, pre) == RunBlock(pre, p.code[n])

_widening_delay == 1

\* extrapolate that never widens.
extrapolate_JoinOnly(iteration, before, after) == join(before, after)

extrapolate(iteration, before, after) ==
  IF iteration <= _widening_delay THEN join(before, after)
  ELSE widen(before, after)

refine(iteration, before, after) ==
  IF iteration = 1 THEN meet(before, after)
  ELSE narrow(before, after)

\* The loop counters are unsigned ints that are only compared with 1 and
\* with the widening delay: they are kept up to IterCap.
IterCap == 3
NextIteration(k) == IF k < IterCap THEN k + 1 ELSE k

(***************************************************************************)
(* The state after the constructor of the iterator: every pre and post is  *)
(* bottom, the pre of the entry is setup_entry(), _skip is true.           *)
(***************************************************************************)
ProgramsOf(sh) ==
  {[blocks |-> sh.blocks, edges |-> sh.edges, wto |-> sh.wto,
    entry |-> 0, code |-> code, setup_entry |-> e] :
     code \in {c \in [sh.blocks -> BlockCodes] : \A n \in sh.blocks : c[n] \in sh.codes[n]},
     e \in EntryStates}

Constructed(programs) ==
  /\ prog \in programs
  /\ _pre = [n \in FLabels |-> IF n = 0 THEN prog.setup_entry ELSE Bot]
  /\ _post = [n \in FLabels |-> Bot]
  /\ _skip = TRUE
  /\ pc = 1
  /\ stack = <<>>
  /\ cfg = NewCfg(0, 0) /\ lastOp = "new" /\ aborted = FALSE
  /\ dbm = <<>> /\ dOp = "new" /\ nOps = 0 /\ dSelf = <<>> /\ dArg = <<>>

FwdInit == Constructed(UNION {ProgramsOf(sh) : sh \in Shapes})

\* The loops with two branches whose entry block and head are empty.
LoopPrograms ==
  ProgramsOf([ShapeTwoBranches EXCEPT
                !.codes = [n \in FLabels |-> IF n \in {0, 1} THEN {<<>>} ELSE BlockCodes]])

FwdLoopInit == Constructed(LoopPrograms)

Returned == pc = Len(prog.wto) + 1

\* operator()(wto_vertex_t&)
VisitVertex ==
  /\ ~Returned
  /\ UNCHANGED notFwdVars
  /\ prog.wto[pc].kind = "vertex"
  /\ LET node == prog.wto[pc].node
         skip == _skip /\ node # prog.entry
         pre == IF node = prog.entry THEN _pre[node]
                ELSE join_all_prevs(prog, _post, node)
     IN /\ _skip' = skip
        /\ IF skip
           THEN UNCHANGED <<_pre, _post>>
           ELSE /\ _pre' = [_pre EXCEPT ![node] = pre]
                /\ _post' = [_post EXCEPT ![node] = transform_to_post(prog, node, pre)]
  /\ pc' = pc + 1
  /\ UNCHANGED <<prog, stack>>

\* operator()(wto_cycle_t&) up to the body of the first increasing
\* iteration.
EnterCycle ==
  /\ ~Returned
  /\ UNCHANGED notFwdVars
  /\ prog.wto[pc].kind = "begin"
  /\ LET head == prog.wto[pc].node
         entry_in_this_cycle == _skip /\ is_member(prog, pc, prog.entry)
         skip == _skip /\ ~entry_in_this_cycle
         outer == {a \in prev_nodes(prog, head) :
                     ~nesting_gt(nesting(prog, a), nesting(prog, head))}
         pre == IF entry_in_this_cycle THEN _pre[prog.entry]
                ELSE JoinOver(_post, outer)
     IN /\ _skip' = skip
        /\ IF skip
           THEN /\ pc' = MatchEnd(prog, pc) + 1
                /\ UNCHANGED <<_pre, _post, stack>>
           ELSE /\ _pre' = [_pre EXCEPT ![head] = pre]
                /\ _post' = [_post EXCEPT ![head] = transform_to_post(prog, head, pre)]
                /\ stack' = Append(stack, [head |-> head, begin |-> pc, phase |-> "inc",
                                           iteration |-> 1, pre |-> pre])
                /\ pc' = pc + 1
  /\ UNCHANGED prog

AtEnd(phase) ==
  /\ ~Returned
  /\ prog.wto[pc].kind = "end"
  /\ stack # <<>>
  /\ stack[Len(stack)].phase = phase

Frame == stack[Len(stack)]
SetFrame(f) == [stack EXCEPT ![Len(stack)] = f]
new_pre == join_all_prevs(prog, _post, Frame.head)

\* End of an increasing iteration, new_pre <= pre: the post-fixpoint is
\* recorded and the first decreasing iteration begins.
IncreasingStable ==
  /\ AtEnd("inc")
  /\ UNCHANGED notFwdVars
  /\ leq(new_pre, Frame.pre)
  /\ _pre' = [_pre EXCEPT ![Frame.head] = new_pre]
  /\ _post' = [_post EXCEPT ![Frame.head] = transform_to_post(prog, Frame.head, new_pre)]
  /\ stack' = SetFrame([Frame EXCEPT !.phase = "dec", !.iteration = 1, !.pre = new_pre])
  /\ pc' = Frame.begin + 1
  /\ UNCHANGED <<prog, _skip>>

\* End of an increasing iteration, otherwise: extrapolate and iterate.
IncreasingExtrapolate ==
  /\ AtEnd("inc")
  /\ UNCHANGED notFwdVars
  /\ ~leq(new_pre, Frame.pre)
  /\ LET pre == extrapolate(Frame.iteration, Frame.pre, new_pre)
     IN /\ _pre' = [_pre EXCEPT ![Frame.head] = pre]
        /\ _post' = [_post EXCEPT ![Frame.head] = transform_to_post(prog, Frame.head, pre)]
        /\ stack' = SetFrame([Frame EXCEPT !.iteration = NextIteration(@), !.pre = pre])
  /\ pc' = Frame.begin + 1
  /\ UNCHANGED <<prog, _skip>>

\* End of a decreasing iteration, pre <= new_pre: the cycle is done.
DecreasingStable ==
  /\ AtEnd("dec")
  /\ UNCHANGED notFwdVars
  /\ leq(Frame.pre, new_pre)
  /\ stack' = SubSeq(stack, 1, Len(stack) - 1)
  /\ pc' = pc + 1
  /\ UNCHANGED <<prog, _pre, _post, _skip>>

\* End of a decreasing iteration, otherwise: refine and iterate.
DecreasingRefine ==
  /\ AtEnd("dec")
  /\ UNCHANGED notFwdVars
  /\ ~leq(Frame.pre, new_pre)
  /\ LET pre == refine(Frame.iteration, Frame.pre, new_pre)
     IN /\ _pre' = [_pre EXCEPT ![Frame.head] = pre]
        /\ _post' = [_post EXCEPT ![Frame.head] = transform_to_post(prog, Frame.head, pre)]
        /\ stack' = SetFrame([Frame EXCEPT !.iteration = NextIteration(@), !.pre = pre])
  /\ pc' = Frame.begin + 1
  /\ UNCHANGED <<prog, _skip>>

FwdNext ==
  \/ VisitVertex
  \/ EnterCycle
  \/ IncreasingStable
  \/ IncreasingExtrapolate
  \/ DecreasingStable
  \/ DecreasingRefine

\* run_forward_analyzer is one sequential loop with no suspension point:
\* a step that can be taken is taken.
SpecFwd == FwdInit /\ [][FwdNext]_vars

FairSpecFwd == FwdLoopInit /\ [][FwdNext]_vars /\ WF_vars(FwdNext)

(***************************************************************************)
(* SplitDBM.  A state is bottom, or vert_map (variable -> vertex),         *)
(* rev_map (vertex -> variable, 0 for none), the weighted graph g over     *)
(* the vertex slots 0 .. sz-1 (vertex 0 is the constant zero), potential   *)
(* and the set unstable.  An edge s -> d of weight w says d - s <= w.      *)
(***************************************************************************)
NumVars == 2
DVars == 1 .. NumVars
MaxConst == 2
MaxWt == 4
\* operations applied to one built state
MaxOps == 2
\* Wt holds the integers of magnitude up to WtLimit; convert_NtoW reports an
\* overflow for the others.
WtLimit == 8
Fits(n) == n \in -WtLimit .. WtLimit

\* Body applied to the value of e.
LetVal(e, Body(_)) == CHOOSE r \in {Body(v) : v \in {e}} : TRUE
LetVal2(e1, e2, Body(_, _)) == CHOOSE r \in {Body(v1, v2) : v1 \in {e1}, v2 \in {e2}} : TRUE

EmptyMap == [e \in {} |-> 0]
MaxOf(S) == CHOOSE x \in S : \A y \in S : x >= y

Mem(E, s, d) == <<s, d>> \in DOMAIN E
PutEdge(E, s, w, d) ==
  [e \in (DOMAIN E) \cup {<<s, d>>} |-> IF e = <<s, d>> THEN w ELSE E[e]]

\* graph_t: set_edge overwrites, update_edge keeps the minimum, forget
\* removes the edges of a vertex and frees its slot, new_vertex reuses the
\* slot freed last or appends one.
set_edge(g, s, w, d) == [g EXCEPT !.E = PutEdge(@, s, w, d)]
update_edge(g, s, w, d) ==
  IF Mem(g.E, s, d) /\ g.E[<<s, d>>] <= w THEN g ELSE set_edge(g, s, w, d)
g_forget(g, v) ==
  [g EXCEPT !.E = [e \in {p \in DOMAIN g.E : p[1] # v /\ p[2] # v} |-> g.E[e]],
            !.free = Append(@, v)]
new_vertex(g) ==
  IF g.free # <<>>
  THEN [id |-> g.free[Len(g.free)],
        g |-> [g EXCEPT !.free = SubSeq(@, 1, Len(@) - 1)]]
  ELSE [id |-> g.sz, g |-> [g EXCEPT !.sz = @ + 1]]
verts(g) == (0 .. g.sz - 1) \ {g.free[i] : i \in 1 .. Len(g.free)}

\* GrOps::apply_delta: set_edge for every edge of delta.
apply_delta(g, delta) ==
  [g EXCEPT !.E = [e \in (DOMAIN g.E) \cup (DOMAIN delta) |->
                     IF e \in DOMAIN delta THEN delta[e] ELSE g.E[e]]]

\* Shortest paths between distinct vertices of S along edges inside S:
\* Via allows k as one more intermediate vertex, AllVia the vertices of S
\* up to k.
Via(E, S, k) ==
  LET through(p) == Mem(E, p[1], k) /\ Mem(E, k, p[2])
  IN [p \in {q \in S \X S : q[1] # q[2] /\ (q \in DOMAIN E \/ through(q))} |->
        IF through(p)
        THEN IF p \in DOMAIN E
             THEN Min2(E[p], E[<<p[1], k>>] + E[<<k, p[2]>>])
             ELSE E[<<p[1], k>>] + E[<<k, p[2]>>]
        ELSE E[p]]

RECURSIVE AllVia(_, _, _)
AllVia(E, S, k) ==
  IF k < 0 THEN E
  ELSE LetVal(AllVia(E, S, k - 1), LAMBDA E1 : IF k \in S THEN Via(E1, S, k) ELSE E1)

ShortestPaths(E, S) ==
  LetVal([e \in {p \in DOMAIN E : p[1] \in S /\ p[2] \in S /\ p[1] # p[2]} |-> E[e]],
         LAMBDA E0 : AllVia(E0, S, MaxOf(S \cup {-1})))

\* The edges of D that E lacks or has with a larger weight.
Improvements(E, D) ==
  [p \in {q \in DOMAIN D : q \notin DOMAIN E \/ D[q] < E[q]} |-> D[p]]

\* GrOps::close_after_meet on the vertices S: the delta that closes E.
close_after_meet(E, S) ==
  LetVal(ShortestPaths(E, S), LAMBDA D : Improvements(E, D))

\* GrOps::close_after_widen on the vertices S: the shortest paths that
\* leave an unstable vertex.
close_after_widen(E, S, unst) ==
  LetVal(close_after_meet(E, S),
         LAMBDA D : [p \in {q \in DOMAIN D : q[1] \in unst} |-> D[p]])

\* GrOps::close_after_assign on the vertices S: the edges from v and to v
\* that a path of two edges implies.
TwoStep(E, S, s, d) ==
  {E[<<s, k>>] + E[<<k, d>>] : k \in {k \in S \ {s, d} : Mem(E, s, k) /\ Mem(E, k, d)}}
close_after_assign(E, S, v) ==
  LET around == ({v} \X (S \ {v})) \cup ((S \ {v}) \X {v})
  IN LetVal([p \in {q \in around : TwoStep(E, S, q[1], q[2]) # {}} |->
               Min(TwoStep(E, S, p[1], p[2]))],
            LAMBDA best : Improvements(E, best))

\* Bellman-Ford relaxation of a potential, started from pi.
RelaxOnce(E, pi) ==
  [v \in DOMAIN pi |->
     Min({pi[v]} \cup {pi[p[1]] + E[p] : p \in {q \in DOMAIN E : q[2] = v}})]
RECURSIVE RelaxN(_, _, _)
RelaxN(E, pi, n) ==
  IF n = 0 THEN pi
  ELSE LetVal(RelaxOnce(E, pi), LAMBDA pi1 : RelaxN(E, pi1, n - 1))
Feasible(E, pi) == \A p \in DOMAIN E : E[p] + pi[p[1]] - pi[p[2]] >= 0

\* GrOps::select_potentials and repair_potential: ok is false iff the graph
\* has a cycle of negative weight.
select_potentials(E, pi) ==
  LetVal(RelaxN(E, pi, Cardinality(DOMAIN pi)),
         LAMBDA r : [ok |-> Feasible(E, r), pi |-> r])

\* GrOps::meet, join, widen on two graphs over the same vertices.
\* meet that keeps the larger weight of an edge that both graphs have.
GrMeet_Max(E1, E2) ==
  [p \in (DOMAIN E1) \cup (DOMAIN E2) |->
     IF p \in DOMAIN E1 /\ p \in DOMAIN E2 THEN Max2(E1[p], E2[p])
     ELSE IF p \in DOMAIN E1 THEN E1[p] ELSE E2[p]]
GrMeet(E1, E2) ==
  [p \in (DOMAIN E1) \cup (DOMAIN E2) |->
     IF p \in DOMAIN E1 /\ p \in DOMAIN E2 THEN Min2(E1[p], E2[p])
     ELSE IF p \in DOMAIN E1 THEN E1[p] ELSE E2[p]]
\* join that keeps the smaller weight.
GrJoin_Min(E1, E2) ==
  [p \in (DOMAIN E1) \cap (DOMAIN E2) |-> Min2(E1[p], E2[p])]
GrJoin(E1, E2) ==
  [p \in (DOMAIN E1) \cap (DOMAIN E2) |-> Max2(E1[p], E2[p])]
\* widen that gives the kept edges the weights of the right operand.
GrWiden_TakesOther(E1, E2) ==
  [p \in (DOMAIN E1) \cap (DOMAIN E2) |-> E2[p]]
GrWiden(E1, E2) ==
  [p \in {q \in DOMAIN E1 : q \in DOMAIN E2 /\ E2[q] <= E1[q]} |-> E1[p]]
Destabilized(E1, E2) ==
  {p[1] : p \in {q \in DOMAIN E1 : ~(q \in DOMAIN E2 /\ E2[q] <= E1[q])}}

\* GrPerm: the graph seen through a renumbering of its vertices; -1 marks a
\* vertex with no counterpart.
GrPerm(perm, E) ==
  [p \in {q \in (DOMAIN perm) \X (DOMAIN perm) :
            perm[q[1]] # -1 /\ perm[q[2]] # -1 /\ Mem(E, perm[q[1]], perm[q[2]])} |->
     E[<<perm[p[1]], perm[p[2]]>>]]

(***************************************************************************)
(* The states.                                                             *)
(***************************************************************************)
TopDBM ==
  [bottom |-> FALSE, vert_map |-> EmptyMap, rev_map |-> [i \in {0} |-> 0],
   g |-> [sz |-> 1, free |-> <<>>, E |-> EmptyMap],
   potential |-> [i \in {0} |-> 0], unstable |-> {}]
BottomDBM == [TopDBM EXCEPT !.bottom = TRUE]

dbm_is_bottom(d) == d.bottom
is_top(d) == ~d.bottom /\ DOMAIN d.g.E = {}

PutAt(f, i, val) == [j \in (DOMAIN f) \cup {i} |-> IF j = i THEN val ELSE f[j]]
MapDel(m, v) == [u \in (DOMAIN m) \ {v} |-> m[u]]
MapInsert(m, v, n) == IF v \in DOMAIN m THEN m ELSE PutAt(m, v, n)

RECURSIVE SortedSeq(_)
SortedSeq(S) == IF S = {} THEN <<>> ELSE <<Min(S)>> \o SortedSeq(S \ {Min(S)})

\* SplitDBM::get_vert
get_vert(d, v) ==
  IF v \in DOMAIN d.vert_map THEN [id |-> d.vert_map[v], d |-> d]
  ELSE LetVal(new_vertex(d.g), LAMBDA nv :
         [id |-> nv.id,
          d |-> [d EXCEPT !.g = nv.g,
                          !.vert_map = PutAt(@, v, nv.id),
                          !.potential = PutAt(@, nv.id, 0),
                          !.rev_map = PutAt(@, nv.id, v)]])

\* SplitDBM::normalize
normalize(d) ==
  IF d.unstable = {} THEN d
  ELSE LetVal2(close_after_widen(d.g.E, verts(d.g) \ {0}, d.unstable),
               close_after_assign(d.g.E, verts(d.g), 0),
               LAMBDA delta1, delta2 :
                 LetVal(apply_delta(d.g, delta1), LAMBDA g1 :
                   [d EXCEPT !.g = apply_delta(g1, delta2), !.unstable = {}]))

\* operator-= that also removes the upper bounds of the other variables.
forget_var_DropsUpperBounds(d, v) ==
  IF d.bottom THEN d
  ELSE LetVal(normalize(d), LAMBDA n :
         IF v \in DOMAIN n.vert_map
         THEN [n EXCEPT !.g = [g_forget(@, n.vert_map[v]) EXCEPT
                                 !.E = [e \in {p \in DOMAIN @ : p[1] # 0} |-> @[e]]],
                        !.rev_map[n.vert_map[v]] = 0,
                        !.vert_map = MapDel(@, v)]
         ELSE n)

\* operator-= that leaves the name of the variable in rev_map.
forget_var_KeepsRev(d, v) ==
  IF d.bottom THEN d
  ELSE LetVal(normalize(d), LAMBDA n :
         IF v \in DOMAIN n.vert_map
         THEN [n EXCEPT !.g = g_forget(@, n.vert_map[v]),
                        !.vert_map = MapDel(@, v)]
         ELSE n)

\* SplitDBM::operator-=
forget_var(d, v) ==
  IF d.bottom THEN d
  ELSE LetVal(normalize(d), LAMBDA n :
         IF v \in DOMAIN n.vert_map
         THEN [n EXCEPT !.g = g_forget(@, n.vert_map[v]),
                        !.rev_map[n.vert_map[v]] = 0,
                        !.vert_map = MapDel(@, v)]
         ELSE n)

\* SplitDBM::forget for one variable
forget(d, v) ==
  IF d.bottom \/ is_top(d) THEN d
  ELSE IF v \in DOMAIN d.vert_map THEN forget_var(d, v) ELSE d

\* Intervals: a bound is absent when its flag is false.
Itv(lb, ub) == [finlb |-> TRUE, lb |-> lb, finub |-> TRUE, ub |-> ub]
AtLeast(lb) == [finlb |-> TRUE, lb |-> lb, finub |-> FALSE, ub |-> 0]
TopItv == [finlb |-> FALSE, lb |-> 0, finub |-> FALSE, ub |-> 0]
itv_is_bottom(i) == i.finlb /\ i.finub /\ i.lb > i.ub
itv_is_top(i) == ~i.finlb /\ ~i.finub
itv_add(i, k) == [i EXCEPT !.lb = IF i.finlb THEN @ + k ELSE 0,
                           !.ub = IF i.finub THEN @ + k ELSE 0]

\* SplitDBM::operator[] : the bounds of a variable are its edges with the
\* zero vertex.
get_interval(d, v) ==
  IF v \notin DOMAIN d.vert_map THEN TopItv
  ELSE LET n == d.vert_map[v]
           E == d.g.E
       IN [finlb |-> Mem(E, n, 0), lb |-> IF Mem(E, n, 0) THEN -E[<<n, 0>>] ELSE 0,
           finub |-> Mem(E, 0, n), ub |-> IF Mem(E, 0, n) THEN E[<<0, n>>] ELSE 0]

\* set that leaves the potential of the vertex as get_vert made it.
set_KeepsPotential(d, x, intv) ==
  IF d.bottom THEN d
  ELSE IF itv_is_bottom(intv) THEN BottomDBM
  ELSE LetVal(forget_var(d, x), LAMBDA d1 :
         IF itv_is_top(intv) THEN d1
         ELSE LetVal(get_vert(d1, x), LAMBDA gv :
                LetVal(IF intv.finub
                       THEN [gv.d EXCEPT !.g = set_edge(@, 0, intv.ub, gv.id)]
                       ELSE gv.d,
                       LAMBDA d3 :
                         IF intv.finlb
                         THEN [d3 EXCEPT !.g = set_edge(@, gv.id, -intv.lb, 0)]
                         ELSE d3)))

\* SplitDBM::set
set(d, x, intv) ==
  IF d.bottom THEN d
  ELSE IF itv_is_bottom(intv) THEN BottomDBM
  ELSE LetVal(forget_var(d, x), LAMBDA d1 :
         IF itv_is_top(intv) THEN d1
         ELSE LetVal(get_vert(d1, x), LAMBDA gv :
                LetVal(IF intv.finub
                       THEN [gv.d EXCEPT !.potential[gv.id] = gv.d.potential[0] + intv.ub,
                                         !.g = set_edge(@, 0, intv.ub, gv.id)]
                       ELSE gv.d,
                       LAMBDA d3 :
                         IF intv.finlb
                         THEN [d3 EXCEPT !.potential[gv.id] = d3.potential[0] + intv.lb,
                                         !.g = set_edge(@, gv.id, -intv.lb, 0)]
                         ELSE d3)))

\* A linear expression: a constant and the non-zero coefficients of its
\* variables.
LinExp(k, terms) == [constant |-> k, terms |-> terms]
VarPlus(y, k) == LinExp(k, [v \in {y} |-> 1])

RECURSIVE SumOf(_)
SumOf(f) ==
  IF DOMAIN f = {} THEN 0
  ELSE LetVal(CHOOSE v \in DOMAIN f : TRUE, LAMBDA v :
         f[v] + SumOf([u \in (DOMAIN f) \ {v} |-> f[u]]))

itv_scale(i, c) ==
  IF c >= 0
  THEN [finlb |-> i.finlb, lb |-> c * i.lb, finub |-> i.finub, ub |-> c * i.ub]
  ELSE [finlb |-> i.finub, lb |-> c * i.ub, finub |-> i.finlb, ub |-> c * i.lb]

\* eval_interval: the expression in interval arithmetic over the bounds of
\* its variables.
eval_interval(d, e) ==
  LetVal([y \in DOMAIN e.terms |-> itv_scale(get_interval(d, y), e.terms[y])], LAMBDA t :
    LetVal2(\A y \in DOMAIN t : t[y].finlb, \A y \in DOMAIN t : t[y].finub, LAMBDA fl, fu :
      [finlb |-> fl,
       lb |-> IF fl THEN e.constant + SumOf([y \in DOMAIN t |-> t[y].lb]) ELSE 0,
       finub |-> fu,
       ub |-> IF fu THEN e.constant + SumOf([y \in DOMAIN t |-> t[y].ub]) ELSE 0]))

\* pot_value and eval_expression: the potentials, taken relative to the
\* zero vertex, are a model of the state; the value of the expression in
\* that model, or an overflow when the constant or a coefficient does not
\* fit Wt.
pot_value(d, y) ==
  IF y \in DOMAIN d.vert_map THEN d.potential[d.vert_map[y]] ELSE 0
\* eval_expression that reports no overflow.
eval_expression_NoOverflow(d, e) ==
  [overflow |-> FALSE,
   val |-> e.constant +
           SumOf([y \in DOMAIN e.terms |-> e.terms[y] * (pot_value(d, y) - d.potential[0])])]
eval_expression(d, e) ==
  [overflow |-> ~Fits(e.constant) \/ \E y \in DOMAIN e.terms : ~Fits(e.terms[y]),
   val |-> e.constant +
           SumOf([y \in DOMAIN e.terms |-> e.terms[y] * (pot_value(d, y) - d.potential[0])])]

\* diffcsts_of_assign that takes the whole term of a variable, coefficient
\* times bound, out of the residual.
diffcsts_of_assign_TimesCoeff(d, e, extract_upper_bounds) ==
  IF ~Fits(e.constant) THEN <<>>
  ELSE
    LET ys == {y \in DOMAIN e.terms : Fits(e.terms[y])}
        neg == {y \in ys : e.terms[y] < 0}
        pos == ys \ neg
        lower(y) == (y \in neg) = extract_upper_bounds
        fin(y) == IF lower(y) THEN get_interval(d, y).finlb ELSE get_interval(d, y).finub
        val(y) == IF lower(y) THEN get_interval(d, y).lb ELSE get_interval(d, y).ub
        unbounded == {y \in pos : ~fin(y)}
        bounded == SortedSeq(pos \ unbounded)
    IN IF \E y \in neg : ~fin(y) THEN <<>>
       ELSE IF Cardinality(unbounded) > 1 \/ \E y \in unbounded : e.terms[y] # 1 THEN <<>>
       ELSE LetVal(e.constant + SumOf([y \in ys \ unbounded |-> val(y) * e.terms[y]]),
                   LAMBDA residual :
              IF unbounded # {}
              THEN <<<<CHOOSE y \in unbounded : TRUE, residual>>>>
              ELSE [i \in 1 .. Len(bounded) |->
                      <<bounded[i], residual - e.terms[bounded[i]] * val(bounded[i])>>])

\* SplitDBM::diffcsts_of_assign: the pairs <<v, n>> (x - v <= n for the
\* upper bounds, x - v >= n for the lower bounds), in the order of the
\* variables.  A term whose coefficient overflows is skipped; the bounds of
\* the variables are weights of the graph and fit Wt.
diffcsts_of_assign(d, e, extract_upper_bounds) ==
  IF ~Fits(e.constant) THEN <<>>
  ELSE
    LET ys == {y \in DOMAIN e.terms : Fits(e.terms[y])}
        neg == {y \in ys : e.terms[y] < 0}
        pos == ys \ neg
        lower(y) == (y \in neg) = extract_upper_bounds
        fin(y) == IF lower(y) THEN get_interval(d, y).finlb ELSE get_interval(d, y).finub
        val(y) == IF lower(y) THEN get_interval(d, y).lb ELSE get_interval(d, y).ub
        unbounded == {y \in pos : ~fin(y)}
        bounded == SortedSeq(pos \ unbounded)
    IN IF \E y \in neg : ~fin(y) THEN <<>>
       ELSE IF Cardinality(unbounded) > 1 \/ \E y \in unbounded : e.terms[y] # 1 THEN <<>>
       ELSE LetVal(e.constant + SumOf([y \in ys \ unbounded |-> val(y) * e.terms[y]]),
                   LAMBDA residual :
              IF unbounded # {}
              THEN <<<<CHOOSE y \in unbounded : TRUE, residual>>>>
              ELSE [i \in 1 .. Len(bounded) |-> <<bounded[i], residual - val(bounded[i])>>])

\* The two loops of assign that fill delta: an edge from vert for a lower
\* difference, an edge to vert for an upper one; get_vert makes the vertex
\* of a variable that has none.
RECURSIVE assign_delta(_, _, _, _, _)
assign_delta(acc, vert, diffs, i, is_lb) ==
  IF i > Len(diffs) THEN acc
  ELSE LetVal(get_vert(acc.d, diffs[i][1]), LAMBDA gv :
         LetVal([d |-> gv.d,
                 delta |-> IF is_lb
                           THEN PutEdge(acc.delta, vert, -diffs[i][2], gv.id)
                           ELSE PutEdge(acc.delta, gv.id, diffs[i][2], vert)],
                LAMBDA acc1 : assign_delta(acc1, vert, diffs, i + 1, is_lb)))

\* The edges that assign gives the new vertex vert: the differences of
\* delta, what they imply, and the bounds x_int.
assign_edges(g, vert, delta, x_int) ==
  LetVal(apply_delta(g, delta), LAMBDA g3 :
    LetVal(apply_delta(g3, close_after_assign(g3.E, verts(g3) \ {0}, vert)), LAMBDA g4 :
      LetVal(IF x_int.finlb THEN update_edge(g4, vert, -x_int.lb, 0) ELSE g4, LAMBDA g5 :
        IF x_int.finub THEN update_edge(g5, 0, x_int.ub, vert) ELSE g5)))

\* SplitDBM::assign
assign(d, x, e) ==
  IF d.bottom THEN d
  ELSE
    LetVal(normalize(d), LAMBDA n :
      LetVal(eval_interval(n, e), LAMBDA x_int :
        IF (x_int.finlb /\ ~Fits(-x_int.lb)) \/ (x_int.finub /\ ~Fits(x_int.ub))
        THEN forget_var(n, x)
        ELSE IF x_int.finlb /\ x_int.finub /\ x_int.lb = x_int.ub
        THEN set(n, x, x_int)
        ELSE
          LetVal2(diffcsts_of_assign(n, e, FALSE), diffcsts_of_assign(n, e, TRUE),
                  LAMBDA diffs_lb, diffs_ub :
            IF diffs_lb = <<>> /\ diffs_ub = <<>> THEN set(n, x, x_int)
            ELSE
              LetVal(eval_expression(n, e), LAMBDA e_val :
                IF e_val.overflow THEN forget_var(n, x)
                ELSE
                  LetVal(new_vertex(n.g), LAMBDA nv :
                    LetVal([d |-> [n EXCEPT !.g = nv.g,
                                            !.rev_map = PutAt(@, nv.id, x),
                                            !.potential = PutAt(@, nv.id, n.potential[0] + e_val.val)],
                            delta |-> EmptyMap],
                           LAMBDA acc0 :
                      LetVal(assign_delta(acc0, nv.id, diffs_lb, 1, TRUE), LAMBDA acc1 :
                        LetVal(assign_delta(acc1, nv.id, diffs_ub, 1, FALSE), LAMBDA acc2 :
                          LetVal(assign_edges(acc2.d.g, nv.id, acc2.delta, x_int), LAMBDA g6 :
                            LetVal(forget_var([acc2.d EXCEPT !.g = g6], x), LAMBDA d3 :
                              [d3 EXCEPT !.vert_map = MapInsert(@, x, nv.id)]))))))))))

\* SplitDBM::close_over_edge
close_over_edge(g, ii, jj) ==
  LET S == verts(g) \ {0}
      E == g.E
      c == g.E[<<ii, jj>>]
  IN LetVal({se \in S \ {jj} : Mem(E, se, ii) /\
               ~(Mem(E, se, jj) /\ E[<<se, jj>>] <= E[<<se, ii>>] + c)},
            LAMBDA src_dec :
    LetVal([p \in (DOMAIN E) \cup {<<se, jj>> : se \in src_dec} |->
              IF p[2] = jj /\ p[1] \in src_dec THEN E[<<p[1], ii>>] + c ELSE E[p]],
           LAMBDA E1 :
    LetVal({de \in S \ {ii} : Mem(E1, jj, de) /\
              ~(Mem(E1, ii, de) /\ E1[<<ii, de>>] <= E1[<<jj, de>>] + c)},
           LAMBDA dest_dec :
    LetVal([p \in (DOMAIN E1) \cup {<<ii, de>> : de \in dest_dec} |->
              IF p[1] = ii /\ p[2] \in dest_dec THEN E1[<<jj, p[2]>>] + c ELSE E1[p]],
           LAMBDA E2 :
    LetVal({p \in src_dec \X dest_dec :
              ~(Mem(E2, p[1], p[2]) /\ E2[p] <= E[<<p[1], ii>>] + c + E1[<<jj, p[2]>>])},
           LAMBDA better :
      [g EXCEPT !.E = [p \in (DOMAIN E2) \cup better |->
                         IF p \in better
                         THEN E[<<p[1], ii>>] + c + E1[<<jj, p[2]>>]
                         ELSE E2[p]]])))))

\* A linear constraint e <= 0, for e one of  x - y - k,  x - k,  -x + k.
DiffCst(x, y, k) == [kind |-> "diff", x |-> x, y |-> y, k |-> k]
UbCst(x, k) == [kind |-> "ub", x |-> x, y |-> x, k |-> k]
LbCst(x, k) == [kind |-> "lb", x |-> x, y |-> x, k |-> k]

\* diffcsts_of_lin_leq that leaves the bound of y out of the upper bound
\* it derives for x.
diffcsts_of_lin_leq_UbNoBound(d, c) ==
  LET ix == get_interval(d, c.x)
      iy == get_interval(d, c.y)
  IN CASE c.kind = "ub" -> [lbs |-> {}, ubs |-> {<<c.x, c.k>>}, csts |-> {}]
       [] c.kind = "lb" -> [lbs |-> {<<c.x, c.k>>}, ubs |-> {}, csts |-> {}]
       [] c.kind = "diff" ->
            [lbs |-> IF ix.finlb THEN {<<c.y, ix.lb - c.k>>} ELSE {},
             ubs |-> IF iy.finub THEN {<<c.x, c.k>>} ELSE {},
             csts |-> {<<c.x, c.y, c.k>>}]

\* SplitDBM::diffcsts_of_lin_leq for these expressions: the lower bounds
\* <<var, n>>, the upper bounds <<var, n>> and the differences
\* <<x, y, k>> (x - y <= k) that it derives.
diffcsts_of_lin_leq(d, c) ==
  LET ix == get_interval(d, c.x)
      iy == get_interval(d, c.y)
  IN CASE c.kind = "ub" -> [lbs |-> {}, ubs |-> {<<c.x, c.k>>}, csts |-> {}]
       [] c.kind = "lb" -> [lbs |-> {<<c.x, c.k>>}, ubs |-> {}, csts |-> {}]
       [] c.kind = "diff" ->
            [lbs |-> IF ix.finlb THEN {<<c.y, ix.lb - c.k>>} ELSE {},
             ubs |-> IF iy.finub THEN {<<c.x, c.k + iy.ub>>} ELSE {},
             csts |-> {<<c.x, c.y, c.k>>}]

\* set_edge or update_edge followed by repair_potential.
repaired(d1, g1) ==
  LetVal(select_potentials(g1.E, d1.potential), LAMBDA sp :
    [ok |-> sp.ok, d |-> [d1 EXCEPT !.g = g1, !.potential = sp.pi]])

\* The three loops of add_linear_leq; a result with ok false is bottom.
AddLb(r, b) ==
  IF ~r.ok THEN r
  ELSE LetVal(get_vert(r.d, b[1]), LAMBDA gv :
         IF Mem(gv.d.g.E, gv.id, 0) /\ gv.d.g.E[<<gv.id, 0>>] <= -b[2]
         THEN [ok |-> TRUE, d |-> gv.d]
         ELSE LetVal(set_edge(gv.d.g, gv.id, -b[2], 0), LAMBDA g1 : repaired(gv.d, g1)))
AddUb(r, b) ==
  IF ~r.ok THEN r
  ELSE LetVal(get_vert(r.d, b[1]), LAMBDA gv :
         IF Mem(gv.d.g.E, 0, gv.id) /\ gv.d.g.E[<<0, gv.id>>] <= b[2]
         THEN [ok |-> TRUE, d |-> gv.d]
         ELSE LetVal(set_edge(gv.d.g, 0, b[2], gv.id), LAMBDA g1 : repaired(gv.d, g1)))
AddDiff(r, c) ==
  IF ~r.ok THEN r
  ELSE LetVal(get_vert(r.d, c[2]), LAMBDA gs :
         LetVal(get_vert(gs.d, c[1]), LAMBDA gd :
           LetVal(update_edge(gd.d.g, gs.id, c[3], gd.id), LAMBDA g1 :
             LetVal(repaired(gd.d, g1), LAMBDA rp :
               IF ~rp.ok THEN [ok |-> FALSE, d |-> gd.d]
               ELSE [ok |-> TRUE,
                     d |-> [rp.d EXCEPT !.g = close_over_edge(g1, gs.id, gd.id)]]))))

\* Each of the three loops runs at most once for these expressions.
Once(Op(_, _), r, S) == IF S = {} THEN r ELSE Op(r, CHOOSE b \in S : TRUE)

\* SplitDBM::add_linear_leq
add_linear_leq(d, c) ==
  LetVal(diffcsts_of_lin_leq(d, c), LAMBDA t :
    LetVal(Once(AddLb, [ok |-> TRUE, d |-> d], t.lbs), LAMBDA r1 :
      LetVal(Once(AddUb, r1, t.ubs), LAMBDA r2 :
        LetVal(Once(AddDiff, r2, t.csts), LAMBDA r3 :
          IF ~r3.ok THEN [ok |-> FALSE, d |-> BottomDBM]
          ELSE LetVal(close_after_assign(r3.d.g.E, verts(r3.d.g), 0), LAMBDA delta :
                 [ok |-> TRUE, d |-> [r3.d EXCEPT !.g = apply_delta(@, delta)]])))))

\* SplitDBM::operator+= for an inequality
add_constraint(d, c) ==
  IF d.bottom THEN d
  ELSE LetVal(normalize(d), LAMBDA n : add_linear_leq(n, c).d)

\* A linear constraint: the expression e of  e <= 0  (INEQUALITY) or
\* e < 0  (STRICT_INEQUALITY), read as signed or as unsigned.
Cst(e, cst_kind, signed) == [exp |-> e, cst_kind |-> cst_kind, signed |-> signed]
\* The expression e + 1.
PlusOne(c) == IF c.kind = "lb" THEN [c EXCEPT !.k = @ + 1] ELSE [c EXCEPT !.k = @ - 1]

\* SplitDBM::operator+= for an inequality or a strict inequality.  An
\* expression with a variable is neither a tautology nor a contradiction.
\* The strict inequality is turned into the inequality e + 1 <= 0 of the
\* same signedness, whose expression is added.
operator_add(d, cst) ==
  IF cst.cst_kind = "INEQUALITY" /\ ~cst.signed THEN d
  ELSE IF cst.cst_kind = "INEQUALITY" THEN add_constraint(d, cst.exp)
  ELSE add_constraint(d, PlusOne(cst.exp))

\* SplitDBM::rename for one pair
rename(d, from, to) ==
  IF is_top(d) \/ d.bottom THEN d
  ELSE IF from \in DOMAIN d.vert_map
       THEN [d EXCEPT !.vert_map = PutAt(MapDel(@, from), to, d.vert_map[from]),
                      !.rev_map[d.vert_map[from]] = to]
       ELSE d

\* SplitDBM::operator<= : every edge of o, renamed to the vertices of self,
\* is implied by an edge of self or by a pair of bounds of self.  self is
\* normalized, o is taken as it is.
dbm_leq(self, o) ==
  IF self.bottom THEN TRUE
  ELSE IF o.bottom THEN FALSE
  ELSE IF is_top(o) THEN TRUE
  ELSE IF is_top(self) THEN FALSE
  ELSE
    LetVal(normalize(self), LAMBDA x :
      IF Cardinality(DOMAIN x.vert_map) < Cardinality(DOMAIN o.vert_map) THEN FALSE
      ELSE
        LET touched == {p[1] : p \in DOMAIN o.g.E} \cup {p[2] : p \in DOMAIN o.g.E}
            named == {v \in DOMAIN o.vert_map : o.vert_map[v] \in touched}
            vert_renaming(n) == IF n = 0 THEN 0 ELSE x.vert_map[o.rev_map[n]]
            E == x.g.E
        IN IF \E v \in named : v \notin DOMAIN x.vert_map THEN FALSE
           ELSE \A p \in DOMAIN o.g.E :
                  LetVal2(vert_renaming(p[1]), vert_renaming(p[2]), LAMBDA vx, vy :
                    \/ Mem(E, vx, vy) /\ E[<<vx, vy>>] <= o.g.E[p]
                    \/ /\ Mem(E, vx, 0) /\ Mem(E, 0, vy)
                       /\ E[<<vx, 0>>] + E[<<0, vy>>] <= o.g.E[p]))

\* The common renaming of join and widen: vertex i of the result is the
\* i-th variable, in the order of vert_map, that both states have.
CommonVars(x, y) == SortedSeq((DOMAIN x.vert_map) \cap (DOMAIN y.vert_map))
PermOf(d, vs) == [i \in 0 .. Len(vs) |-> IF i = 0 THEN 0 ELSE d.vert_map[vs[i]]]
PotOf(d, vs) ==
  [i \in 0 .. Len(vs) |-> IF i = 0 THEN 0 ELSE d.potential[d.vert_map[vs[i]]] - d.potential[0]]
VmapOf(vs) == [v \in {vs[i] : i \in 1 .. Len(vs)} |-> CHOOSE i \in 1 .. Len(vs) : vs[i] = v]
RevOf(vs) == [i \in 0 .. Len(vs) |-> IF i = 0 THEN 0 ELSE vs[i]]
ViewOf(d, vs) == LetVal(PermOf(d, vs), LAMBDA perm : GrPerm(perm, d.g.E))

\* No relation is recovered from bounds.
Deferred_None(gx, gy) == [p \in {} |-> 0]

\* The relations of gy between non-zero vertices that gx has only as a
\* pair of bounds.
Deferred(gx, gy) ==
  [p \in {q \in DOMAIN gy : q[1] # 0 /\ q[2] # 0 /\ Mem(gx, q[1], 0) /\ Mem(gx, 0, q[2])} |->
     gx[<<p[1], 0>>] + gx[<<0, p[2]>>]]

Reclosed(gx, gy, S) ==
  LetVal(GrMeet(gx, Deferred(gx, gy)), LAMBDA g_rx :
    LetVal(close_after_meet(g_rx, S), LAMBDA delta :
      [p \in (DOMAIN g_rx) \cup (DOMAIN delta) |->
         IF p \in DOMAIN delta THEN delta[p] ELSE g_rx[p]]))

\* The bounds of join: the relations that both operands imply by their
\* bounds alone, added to the join of the two reclosed graphs.
JoinBounds(gx, gy, join0, S) ==
  LET ub_up == {v \in S : Mem(gx, 0, v) /\ Mem(gy, 0, v) /\ gx[<<0, v>>] < gy[<<0, v>>]}
      ub_down == {v \in S : Mem(gx, 0, v) /\ Mem(gy, 0, v) /\ gy[<<0, v>>] < gx[<<0, v>>]}
      lb_down == {v \in S : Mem(gx, v, 0) /\ Mem(gy, v, 0) /\ gx[<<v, 0>>] < gy[<<v, 0>>]}
      lb_up == {v \in S : Mem(gx, v, 0) /\ Mem(gy, v, 0) /\ gy[<<v, 0>>] < gx[<<v, 0>>]}
      bound(p) == Max2(gx[<<p[1], 0>>] + gx[<<0, p[2]>>], gy[<<p[1], 0>>] + gy[<<0, p[2]>>])
  IN LetVal({p \in (lb_up \X ub_up) \cup (lb_down \X ub_down) : p[1] # p[2]}, LAMBDA pairs :
       [p \in (DOMAIN join0) \cup pairs |->
          IF p \in pairs
          THEN IF p \in DOMAIN join0 THEN Min2(join0[p], bound(p)) ELSE bound(p)
          ELSE join0[p]])

\* The bitwise operators of interval_t on two operands, for AND and OR: exact
\* on two singletons (two's complement of unbounded width) and top
\* otherwise.
BitwiseOps == {"and", "or"}
RECURSIVE BitAnd(_, _)
BitAnd(a, b) ==
  IF a = 0 \/ b = 0 THEN 0
  ELSE IF a = -1 THEN b
  ELSE IF b = -1 THEN a
  ELSE (a % 2) * (b % 2) + 2 * BitAnd(a \div 2, b \div 2)
RECURSIVE BitOr(_, _)
BitOr(a, b) ==
  IF a = 0 THEN b
  ELSE IF b = 0 THEN a
  ELSE IF a = -1 \/ b = -1 THEN -1
  ELSE Max2(a % 2, b % 2) + 2 * BitOr(a \div 2, b \div 2)
itv_is_singleton(i) == i.finlb /\ i.finub /\ i.lb = i.ub
itv_bitwise(op, yi, zi) ==
  IF itv_is_bottom(yi) \/ itv_is_bottom(zi) THEN Itv(1, 0)
  ELSE IF itv_is_singleton(yi) /\ itv_is_singleton(zi)
    THEN LET v == IF op = "and" THEN BitAnd(yi.lb, zi.lb) ELSE BitOr(yi.lb, zi.lb)
         IN Itv(v, v)
  ELSE TopItv

\* SplitDBM::apply(bitwise_binop_t, x, y, z): x is forgotten first, then the
\* intervals of y and z are read.
apply_bitwise_var(d, op, x, y, z) ==
  IF d.bottom THEN d
  ELSE LetVal(forget_var(normalize(d), x), LAMBDA d1 :
         set(d1, x, itv_bitwise(op, get_interval(d1, y), get_interval(d1, z))))

\* SplitDBM::apply(bitwise_binop_t, x, y, k)
apply_bitwise_num(d, op, x, y, k) ==
  IF d.bottom THEN d
  ELSE LetVal(normalize(d), LAMBDA n :
         set(n, x, itv_bitwise(op, get_interval(n, y), Itv(k, k))))

\* SplitDBM::operator|
dbm_join(self, _o) ==
  IF self.bottom \/ is_top(_o) THEN _o
  ELSE IF is_top(self) \/ _o.bottom THEN self
  ELSE
    LetVal2(normalize(self), normalize(_o), LAMBDA x, o :
      LetVal(CommonVars(x, o), LAMBDA vs :
        LetVal2(ViewOf(x, vs), ViewOf(o, vs), LAMBDA gx, gy :
          LetVal2(Reclosed(gx, gy, 1 .. Len(vs)), Reclosed(gy, gx, 1 .. Len(vs)), LAMBDA g_rx, g_ry :
            LetVal(GrJoin(g_rx, g_ry), LAMBDA join0 :
              LetVal(JoinBounds(gx, gy, join0, 1 .. Len(vs)), LAMBDA join_E :
                LetVal({v \in 1 .. Len(vs) : \A p \in DOMAIN join_E : p[1] # v /\ p[2] # v},
                       LAMBDA unused :
                  [bottom |-> FALSE,
                   vert_map |-> [v \in {vs[i] : i \in (1 .. Len(vs)) \ unused} |-> VmapOf(vs)[v]],
                   rev_map |-> [i \in 0 .. Len(vs) |-> IF i \in unused THEN 0 ELSE RevOf(vs)[i]],
                   g |-> [sz |-> Len(vs) + 1, free |-> SortedSeq(unused), E |-> join_E],
                   potential |-> PotOf(x, vs),
                   unstable |-> {}])))))))

\* SplitDBM::widen
dbm_widen(self, _o) ==
  IF self.bottom THEN _o
  ELSE IF _o.bottom THEN self
  ELSE
    LetVal(normalize(_o), LAMBDA o :
      LetVal(CommonVars(self, o), LAMBDA vs :
        LetVal2(ViewOf(self, vs), ViewOf(o, vs), LAMBDA gx, gy :
          [bottom |-> FALSE,
           vert_map |-> VmapOf(vs),
           rev_map |-> RevOf(vs),
           g |-> [sz |-> Len(vs) + 1, free |-> <<>>, E |-> GrWiden(gx, gy)],
           potential |-> PotOf(self, vs),
           unstable |-> self.unstable \cup Destabilized(gx, gy)])))

\* The renaming of meet: the variables of x, then those that only o has.
MeetVars(x, o) ==
  SortedSeq(DOMAIN x.vert_map) \o SortedSeq((DOMAIN o.vert_map) \ (DOMAIN x.vert_map))
MeetPerm(d, vs) ==
  [i \in 0 .. Len(vs) |->
     IF i = 0 THEN 0
     ELSE IF vs[i] \in DOMAIN d.vert_map THEN d.vert_map[vs[i]] ELSE -1]
MeetPot(x, o, vs) ==
  [i \in 0 .. Len(vs) |->
     IF i = 0 THEN 0
     ELSE IF vs[i] \in DOMAIN x.vert_map
          THEN x.potential[x.vert_map[vs[i]]] - x.potential[0]
          ELSE o.potential[o.vert_map[vs[i]]] - o.potential[0]]
MeetView(d, vs) == LetVal(MeetPerm(d, vs), LAMBDA perm : GrPerm(perm, d.g.E))

\* SplitDBM::operator&
dbm_meet(self, _o) ==
  IF self.bottom \/ _o.bottom THEN BottomDBM
  ELSE IF is_top(self) THEN _o
  ELSE IF is_top(_o) THEN self
  ELSE
    LetVal2(normalize(self), normalize(_o), LAMBDA x, o :
      LetVal(MeetVars(x, o), LAMBDA vs :
        LetVal2(MeetView(x, vs), MeetView(o, vs), LAMBDA gx, gy :
          LetVal2(GrMeet(gx, gy), MeetPot(x, o, vs), LAMBDA meet0, meet_pi :
            LetVal(select_potentials(meet0, meet_pi), LAMBDA sp :
              IF ~sp.ok THEN BottomDBM
              ELSE
                LetVal(close_after_meet(meet0, 1 .. Len(vs)), LAMBDA delta :
                  LetVal(apply_delta([sz |-> Len(vs) + 1, free |-> <<>>, E |-> meet0], delta),
                         LAMBDA g1 :
                    LetVal(close_after_assign(g1.E, 0 .. Len(vs), 0), LAMBDA delta0 :
                      [bottom |-> FALSE, vert_map |-> VmapOf(vs), rev_map |-> RevOf(vs),
                       g |-> apply_delta(g1, delta0), potential |-> sp.pi,
                       unstable |-> {}]))))))))

\* narrow that returns its right operand.
dbm_narrow_ReturnsOther(self, o) ==
  IF self.bottom \/ o.bottom THEN BottomDBM
  ELSE o

\* SplitDBM::narrow
dbm_narrow(self, o) ==
  IF self.bottom \/ o.bottom THEN BottomDBM
  ELSE IF is_top(self) THEN o
  ELSE normalize(self)

(***************************************************************************)
(* The operations of SplitDBM as actions on one state, dbm.  dOp names the *)
(* last operation and nOps counts them.  The state starts as one built by  *)
(* set and += from top, and so does the right operand of a lattice         *)
(* operation.  An operation is taken when its result keeps the weights and *)
(* potentials within MaxWt.  The operations before the last one of a run   *)
(* build the state that the last one is applied to; for the last one,      *)
(* dSelf keeps the state it was applied to and dArg its arguments.         *)
(***************************************************************************)
Consts == 0 .. MaxConst
SetIntervals ==
  {Itv(l, u) : l \in Consts, u \in Consts} \cup {AtLeast(0), TopItv}
Offsets == {-1, 0, 1}
\* The right-hand sides of assign: y + k, c * y, c1 * y1 + c2 * y2, and y
\* plus a constant that does not fit Wt; a coefficient is negative, one,
\* larger, or too large for Wt.
Coeffs == {-1, 1, 2, WtLimit + 1}
AssignExprs ==
  {VarPlus(y, k) : y \in DVars, k \in Offsets} \cup
  {LinExp(0, [v \in {y} |-> c]) : y \in DVars, c \in Coeffs} \cup
  {LinExp(0, [v \in DVars |-> c[v]]) : c \in [DVars -> Coeffs]} \cup
  {VarPlus(y, WtLimit + 1) : y \in DVars}
Constraints ==
  {DiffCst(p[1], p[2], k) : p \in {q \in DVars \X DVars : q[1] # q[2]}, k \in Offsets} \cup
  {UbCst(x, k) : x \in DVars, k \in Consts} \cup
  {LbCst(x, k) : x \in DVars, k \in Consts}

\* The arguments of operator+=: the signed inequalities of Constraints, and
\* some of them as strict and as unsigned ones.
LinearConstraints ==
  {Cst(c, "INEQUALITY", TRUE) : c \in Constraints} \cup
  {Cst(c, k, s) : c \in {e \in Constraints : e.k = 1},
                 k \in {"INEQUALITY", "STRICT_INEQUALITY"}, s \in BOOLEAN}

OperandBoxes ==
  {set(set(TopDBM, 1, Itv(0, ux)), 2, Itv(0, uy)) : ux \in 1 .. MaxConst, uy \in 1 .. MaxConst}
Operands ==
  {BottomDBM, TopDBM, set(TopDBM, 1, Itv(0, 1))} \cup OperandBoxes \cup
  {add_constraint(b, DiffCst(2, 1, 0)) : b \in OperandBoxes} \cup
  {add_constraint(b, DiffCst(1, 2, 1)) : b \in OperandBoxes}

\* The operands of an operation as one record: the variable it names (x,
\* and to for a renaming; 0 when it names none) and its other argument v (an
\* interval, an expression, a constraint or a state; NoValue when it has
\* none).
NoValue == [none |-> TRUE]
Arg(x, to, v) == [x |-> x, to |-> to, v |-> v]
NoArg == Arg(0, 0, NoValue)

InRange(d) ==
  /\ \A p \in DOMAIN d.g.E : d.g.E[p] \in -MaxWt .. MaxWt
  /\ \A i \in DOMAIN d.potential : d.potential[i] \in -MaxWt .. MaxWt

Step(op, arg, d) ==
  /\ \E r \in {d} : InRange(r) /\ dbm' = r
  /\ dOp' = op
  /\ nOps' = nOps + 1
  /\ dSelf' = IF nOps + 1 = MaxOps THEN dbm ELSE NoValue
  /\ dArg' = IF nOps + 1 = MaxOps THEN arg ELSE NoArg
  /\ UNCHANGED notDbmVars

DbmInit ==
  /\ dbm \in Operands
  /\ dOp = "new"
  /\ nOps = 0
  /\ dSelf = NoValue /\ dArg = NoArg
  /\ cfg = NewCfg(0, 0) /\ lastOp = "new" /\ aborted = FALSE
  /\ prog = [blocks |-> {}] /\ _pre = <<>> /\ _post = <<>>
  /\ _skip = TRUE /\ pc = 0 /\ stack = <<>>

DoSet ==
  /\ nOps < MaxOps
  /\ \E x \in DVars, i \in SetIntervals : Step("set", Arg(x, 0, i), set(dbm, x, i))
DoAssign ==
  /\ nOps < MaxOps
  /\ \E x \in DVars, e \in AssignExprs : Step("assign", Arg(x, 0, e), assign(dbm, x, e))
DoAddConstraint ==
  /\ nOps < MaxOps
  /\ \E cst \in LinearConstraints : Step("+=", Arg(0, 0, cst), operator_add(dbm, cst))
DoForget ==
  /\ nOps < MaxOps
  /\ \E x \in DVars : Step("forget", Arg(x, 0, NoValue), forget(dbm, x))
DoRename ==
  /\ nOps < MaxOps
  /\ \E from \in DVars, to \in DVars :
       /\ to \notin DOMAIN dbm.vert_map
       /\ Step("rename", Arg(from, to, NoValue), rename(dbm, from, to))
DoNormalize ==
  /\ nOps < MaxOps
  /\ Step("normalize", NoArg, normalize(dbm))
DoJoin ==
  /\ nOps < MaxOps
  /\ \E o \in Operands : Step("join", Arg(0, 0, o), dbm_join(dbm, o))
DoMeet ==
  /\ nOps < MaxOps
  /\ \E o \in Operands : Step("meet", Arg(0, 0, o), dbm_meet(dbm, o))
DoWiden ==
  /\ nOps < MaxOps
  /\ \E o \in Operands : Step("widen", Arg(0, 0, o), dbm_widen(dbm, o))
DoNarrow ==
  /\ nOps < MaxOps
  /\ \E o \in Operands : Step("narrow", Arg(0, 0, o), dbm_narrow(dbm, o))

DoApplyBitwise ==
  /\ nOps < MaxOps
  /\ \E op \in BitwiseOps, x \in DVars, y \in DVars, z \in DVars :
       Step("apply_bitwise", Arg(x, 0, [op |-> op, y |-> y, z |-> z]),
            apply_bitwise_var(dbm, op, x, y, z))
DoApplyBitwiseNum ==
  /\ nOps < MaxOps
  /\ \E op \in BitwiseOps, x \in DVars, y \in DVars, k \in Consts :
       Step("apply_bitwise_num", Arg(x, 0, [op |-> op, y |-> y, k |-> k]),
            apply_bitwise_num(dbm, op, x, y, k))

DbmNext ==
  \/ DoSet
  \/ DoAssign
  \/ DoAddConstraint
  \/ DoForget
  \/ DoRename
  \/ DoNormalize
  \/ DoJoin
  \/ DoMeet
  \/ DoWiden
  \/ DoNarrow
  \/ DoApplyBitwise
  \/ DoApplyBitwiseNum

SpecDBM == DbmInit /\ [][DbmNext]_vars

(***************************************************************************)
(* A widening chain: the state is widened with one operand after another,  *)
(* without end, as the fixpoint iterator does at the head of a cycle.      *)
(* dSelf and dArg keep the operands of the last step.                      *)
(***************************************************************************)
ChainWiden ==
  \E o \in Operands :
    /\ dbm' = dbm_widen(dbm, o)
    /\ dOp' = "widen"
    /\ dSelf' = dbm
    /\ dArg' = Arg(0, 0, o)
    /\ UNCHANGED <<nOps, notDbmVars>>

FairSpecWidenChain == DbmInit /\ [][ChainWiden]_vars /\ WF_vars(ChainWiden)

(***************************************************************************)
(* Reachability along successor / predecessor edges.                       *)
(***************************************************************************)
RECURSIVE Closure(_, _)
Closure(f, S) ==
  LET T == S \cup UNION {f[x] : x \in S}
  IN IF T = S THEN S ELSE Closure(f, T)

ReachableFromEntry(c) == Closure(c.m_next, {c.m_entry})
ReachingExit(c) == Closure(c.m_prev, {c.m_exit})

SimplifyReturned == lastOp = "simplify" /\ ~aborted

\* C3: CFG symmetry.  In every state reached by insert, operator>>,
\* operator-=, remove and simplify, for all blocks a, b of the CFG, b is a
\* successor of a if and only if a is a predecessor of b.
C3_Symmetry ==
  \A a \in Labels, b \in Labels :
    (b \in cfg.m_next[a]) <=> (a \in cfg.m_prev[b])

\* C3 witness: simplify has merged two blocks and rewired an edge, and a
\* block was removed before or by it.
C3_Witness ==
  /\ SimplifyReturned
  /\ \E a \in cfg.m_blocks : Len(cfg.m_ts[a]) = 2 /\ cfg.m_next[a] # {}
  /\ Cardinality(cfg.m_blocks) = 2

\* C4 (as claimed): after simplify() returns, every block of the CFG is
\* reachable from entry along successor edges.  Stated for the CFGs whose
\* exit is reachable from entry, which simplify() is not meant to reject.
C4_AllReachableAfterSimplify ==
  (SimplifyReturned /\ cfg.m_exit \in ReachableFromEntry(cfg))
  => cfg.m_blocks \subseteq ReachableFromEntry(cfg)

\* C5 (as claimed): after simplify() returns, every block of the CFG can
\* reach exit along successor edges.  Stated for the CFGs whose exit is
\* reachable from entry, which simplify() is not meant to reject.
C5_AllReachExitAfterSimplify ==
  (SimplifyReturned /\ cfg.m_exit \in ReachableFromEntry(cfg))
  => cfg.m_blocks \subseteq ReachingExit(cfg)

\* a block other than entry and exit in the middle of a straight line
Mergeable(c, b) ==
  /\ b # c.m_entry /\ b # c.m_exit
  /\ in_degree(c, b) = 1 /\ out_degree(c, get_parent(c, b)) = 1
  /\ out_degree(c, b) = 1 /\ in_degree(c, get_child(c, b)) = 1

\* C6 (as claimed): after simplify() returns no block other than entry and
\* exit has a single predecessor whose only successor it is and a single
\* successor whose only predecessor it is.  Stated for the CFGs in which
\* every block is reachable from entry and reaches exit, so that a
\* violation does not rest on blocks simplify() was to remove (C4, C5).
C6_MaximalMergeAfterSimplify ==
  (/\ SimplifyReturned
   /\ cfg.m_blocks \subseteq ReachableFromEntry(cfg)
   /\ cfg.m_blocks \subseteq ReachingExit(cfg))
  => \A b \in cfg.m_blocks : ~Mergeable(cfg, b)

\* the chain 0 -> 1 -> 2 with entry 0 and exit 2
IsChain012(c) ==
  /\ c.m_blocks = {0, 1, 2} /\ c.m_entry = 0 /\ c.m_exit = 2
  /\ c.m_next = [l \in Labels |-> IF l \in {0, 1} THEN {l + 1} ELSE {}]

C7_StepOk ==
  \A b \in cfg.m_blocks :
    (~aborted /\ CanMerge(cfg, b) /\ get_child(cfg, b) # cfg.m_entry) =>
      LET n == get_child(cfg, b)
          r == MergeStep(cfg, b)
      IN /\ r.m_ts[b] = cfg.m_ts[b] \o cfg.m_ts[n]
         /\ r.m_next[b] = cfg.m_next[n]
         /\ n \notin r.m_blocks
         /\ r.m_blocks = cfg.m_blocks \ {n}
         /\ (n = cfg.m_exit => r.m_exit = b)
         /\ (n # cfg.m_exit => r.m_exit = cfg.m_exit)

C7_ChainOk ==
  (IsChain012(cfg) /\ lastOp' = "simplify") =>
     /\ ~aborted'
     /\ cfg'.m_blocks = {0} /\ cfg'.m_entry = 0 /\ cfg'.m_exit = 0
     /\ cfg'.m_ts[0] = cfg.m_ts[0] \o cfg.m_ts[1] \o cfg.m_ts[2]

C8_WellFormed ==
  ~aborted =>
    /\ cfg.m_entry \in cfg.m_blocks
    /\ cfg.m_exit \in cfg.m_blocks
    /\ \A l \in Labels : cfg.m_prev[l] \subseteq cfg.m_blocks
                         /\ cfg.m_next[l] \subseteq cfg.m_blocks
    /\ \A l \in Labels \ cfg.m_blocks : cfg.m_prev[l] = {} /\ cfg.m_next[l] = {}

\* C8 witness: remove(l) has erased a block that had edges, and the blocks
\* left still have an edge.
C8_Witness ==
  /\ lastOp = "remove" /\ ~aborted
  /\ Cardinality(cfg.m_blocks) = 2
  /\ \E a \in cfg.m_blocks : cfg.m_next[a] # {}

(***************************************************************************)
(* Claims about the forward fixpoint iterator.                             *)
(***************************************************************************)
\* C1: when run_forward_analyzer returns, for every label v other than the
\* entry, the join of post[p] over the predecessors p of v is below or
\* equal to pre[v].
C1_PostFixpoint ==
  Returned =>
    \A v \in prog.blocks \ {prog.entry} :
      leq(join_all_prevs(prog, _post, v), _pre[v])

\* C2: run_forward_analyzer returns: every cycle's decreasing loop reaches
\* an iteration with pre <= new_pre.
C2_Returns == <>Returned

(***************************************************************************)
(* Claims about SplitDBM.                                                  *)
(***************************************************************************)
ClosedOver(E, triples) ==
  \A t \in triples :
    (Mem(E, t[1], t[3]) /\ Mem(E, t[3], t[2])) =>
      (Mem(E, t[1], t[2]) /\ E[<<t[1], t[2]>>] <= E[<<t[1], t[3]>>] + E[<<t[3], t[2]>>])

\* the triples <<i, j, k>> of pairwise distinct vertices of the state whose
\* middle vertex k is not the zero vertex: the split normal form keeps no
\* edge for a path through the zero vertex
SplitTriples(d) ==
  {t \in verts(d.g) \X verts(d.g) \X verts(d.g) :
     t[1] # t[2] /\ t[1] # t[3] /\ t[2] # t[3] /\ t[3] # 0}

\* C9: after normalize and after every join, meet and narrowing that
\* returns a non-bottom state, for all vertices i, j, k, if the edges i -> k
\* and k -> j exist then an edge i -> j exists with weight
\* <= weight(i -> k) + weight(k -> j).  The claim is taken in its favour:
\* on the triples of the split normal form, and without the results of
\* widening, which stay unclosed until the next normalize.
C9_ClosedAfterLatticeOp ==
  (dOp \in {"normalize", "join", "meet", "narrow"} /\ ~dbm.bottom) =>
    ClosedOver(dbm.g.E, SplitTriples(dbm))

\* C10: after every operation that leaves or returns a non-bottom state,
\* every edge i -> j of weight w has w + potential[i] - potential[j] >= 0.
C10_PotentialFeasible == ~dbm.bottom => Feasible(dbm.g.E, dbm.potential)

\* an assignment x := y - 1 has left the difference as an edge of negative
\* weight between the vertices of two variables
C10_Witness ==
  /\ dOp = "assign"
  /\ ~dbm.bottom
  /\ \E p \in DOMAIN dbm.g.E : p[1] # 0 /\ p[2] # 0 /\ dbm.g.E[p] < 0

(***************************************************************************)
(* The concrete states of a SplitDBM state: the valuations of the          *)
(* variables that satisfy every edge (d - s <= w for an edge s -> d of     *)
(* weight w, the zero vertex standing for 0).                              *)
(***************************************************************************)
Valuations == [DVars -> -MaxWt .. MaxWt]
ValOf(d, sigma, v) == IF v = 0 THEN 0 ELSE sigma[d.rev_map[v]]
Sat(d, sigma) ==
  /\ ~d.bottom
  /\ \A p \in DOMAIN d.g.E : ValOf(d, sigma, p[2]) - ValOf(d, sigma, p[1]) <= d.g.E[p]
EvalAt(e, sigma) == e.constant + SumOf([y \in DOMAIN e.terms |-> e.terms[y] * sigma[y]])
LastOp(op) == dOp = op /\ nOps = MaxOps

\* C11: assign(x, e) is sound: for every concrete state sigma of the state
\* before, sigma with x set to the value of e in sigma satisfies every edge
\* of the state after, whatever the coefficients of e and whether or not x
\* occurs in e.
C11_AssignSound ==
  LastOp("assign") =>
    \A sigma \in Valuations :
      Sat(dSelf, sigma) =>
        Sat(dbm, [sigma EXCEPT ![dArg.x] = EvalAt(dArg.v, sigma)])

\* x := c1 * x + c2 * y with a coefficient 2 has left a relation between x
\* and y in a state that had concrete states.
C11_Witness ==
  /\ LastOp("assign") /\ ~dbm.bottom
  /\ DOMAIN dArg.v.terms = DVars
  /\ \E v \in DVars : dArg.v.terms[v] = 2
  /\ \E sigma \in Valuations : Sat(dSelf, sigma)
  /\ \E p \in DOMAIN dbm.g.E : p[1] # 0 /\ p[2] # 0

\* C12: join is an upper bound in the implemented order: operator<= holds
\* of each operand and the join, for all operands, top, bottom and states
\* over different variables included.
C12_JoinUpperBound ==
  LastOp("join") => dbm_leq(dSelf, dbm) /\ dbm_leq(dArg.v, dbm)

\* A join of two states over different variables, neither top nor bottom,
\* that kept a bound.
C12_Witness ==
  /\ LastOp("join")
  /\ ~dSelf.bottom /\ ~dArg.v.bottom /\ ~is_top(dSelf) /\ ~is_top(dArg.v)
  /\ DOMAIN dSelf.vert_map # DOMAIN dArg.v.vert_map
  /\ ~dbm.bottom /\ ~is_top(dbm)

\* A set of constraints with weights up to MaxWt over NumVars variables and
\* the zero vertex that has a solution has one with values up to
\* NumVars * MaxWt.
WideValuations == [DVars -> -(NumVars * MaxWt) .. NumVars * MaxWt]

\* C13: meet is a lower bound in the implemented order: operator<= holds of
\* the meet and each operand, and the meet is bottom whenever no valuation
\* satisfies the constraints of both operands.
C13_MeetLowerBound ==
  LastOp("meet") =>
    /\ dbm_leq(dbm, dSelf) /\ dbm_leq(dbm, dArg.v)
    /\ (~\E sigma \in WideValuations : Sat(dSelf, sigma) /\ Sat(dArg.v, sigma)) => dbm.bottom

\* A meet of two satisfiable states whose conjunction is not, and a meet
\* of two states that is neither operand.
C13_WitnessUnsat ==
  /\ LastOp("meet") /\ dbm.bottom
  /\ \E sigma \in WideValuations : Sat(dSelf, sigma)
  /\ \E sigma \in WideValuations : Sat(dArg.v, sigma)
C13_Witness ==
  /\ LastOp("meet") /\ ~dbm.bottom
  /\ ~dSelf.bottom /\ ~dArg.v.bottom /\ ~is_top(dSelf) /\ ~is_top(dArg.v)
  /\ \E p \in DOMAIN dbm.g.E : p[1] # 0 /\ p[2] # 0
  /\ ~dbm_leq(dSelf, dbm) /\ ~dbm_leq(dArg.v, dbm)

\* The edges of a state by the names of the variables.
HasRel(d, u, v) ==
  /\ u \in DOMAIN d.vert_map /\ v \in DOMAIN d.vert_map
  /\ Mem(d.g.E, d.vert_map[u], d.vert_map[v])
RelOf(d, u, v) == d.g.E[<<d.vert_map[u], d.vert_map[v]>>]
HasLb(d, u) == u \in DOMAIN d.vert_map /\ Mem(d.g.E, d.vert_map[u], 0)
HasUb(d, v) == v \in DOMAIN d.vert_map /\ Mem(d.g.E, 0, d.vert_map[v])

\* A = {x in [0,10], y in [0,10]}, B = {x in [20,30], y in [20,30],
\* y - x <= 0}, for x the variable 1 and y the variable 2.
JoinExampleA == set(set(TopDBM, 1, Itv(0, 10)), 2, Itv(0, 10))
JoinExampleB ==
  add_constraint(set(set(TopDBM, 1, Itv(20, 30)), 2, Itv(20, 30)), DiffCst(2, 1, 0))
JoinExample == dbm_join(JoinExampleA, JoinExampleB)

\* The relation between u and v that only one of the operands x and o of a
\* join has as an edge, the other having the two bounds that imply one.
DeferredIn(x, o, u, v) == HasRel(o, u, v) /\ HasLb(x, u) /\ HasUb(x, v)

\* C14: join recovers the relations that one operand implies by its bounds
\* only: the join of the states A and B above has x in [0,30], y in [0,30]
\* and an edge for y - x of weight at most 30; and for an edge s -> d of one
\* operand, if the other operand has the edges s -> 0 and 0 -> d, the join
\* has an edge s -> d.
C14_JoinRecoversDeferred ==
  /\ get_interval(JoinExample, 1) = Itv(0, 30)
  /\ get_interval(JoinExample, 2) = Itv(0, 30)
  /\ HasRel(JoinExample, 1, 2) /\ RelOf(JoinExample, 1, 2) <= 30
  /\ (LastOp("join") /\ ~dSelf.bottom /\ ~dArg.v.bottom /\ ~is_top(dSelf) /\ ~is_top(dArg.v)) =>
       \A u \in DVars : \A v \in DVars \ {u} :
         LetVal2(normalize(dSelf), normalize(dArg.v), LAMBDA x, o :
           (DeferredIn(x, o, u, v) \/ DeferredIn(o, x, u, v)) => HasRel(dbm, u, v))

\* A join that has an edge between two variables that self has only as a
\* pair of bounds.
C14_Witness ==
  /\ LastOp("join") /\ ~dSelf.bottom /\ ~dArg.v.bottom
  /\ \E u \in DVars : \E v \in DVars \ {u} :
       /\ DeferredIn(normalize(dSelf), dArg.v, u, v)
       /\ ~HasRel(normalize(dSelf), u, v)
       /\ HasRel(dbm, u, v)

\* From top: x <= 5, then x >= 2, then y - x <= 3, for x the variable 1 and
\* y the variable 2.
BoundsExample ==
  add_constraint(add_constraint(add_constraint(TopDBM, UbCst(1, 5)), LbCst(1, 2)),
                 DiffCst(2, 1, 3))

\* A signed inequality e <= 0 for e of the form e.x - e.y - e.k.
SignedDiff(cst) == cst.cst_kind = "INEQUALITY" /\ cst.signed /\ cst.exp.kind = "diff"

\* C15: adding linear inequalities derives bounds through differences: in
\* the state above y has the upper bound 8 and no lower bound and x is in
\* [2,5]; and adding y - x <= k to a state where x is in [l,u] and y has no
\* upper bound gives y the upper bound u + k.  The expression e of the
\* constraint reads e.x - e.y <= e.k, so the y of the claim is e.x and its
\* x is e.y.
C15_BoundThroughDifference ==
  /\ get_interval(BoundsExample, 2) = [finlb |-> FALSE, lb |-> 0, finub |-> TRUE, ub |-> 8]
  /\ get_interval(BoundsExample, 1) = Itv(2, 5)
  /\ (LastOp("+=") /\ SignedDiff(dArg.v) /\ ~dSelf.bottom /\ ~dbm.bottom) =>
       LetVal2(get_interval(normalize(dSelf), dArg.v.exp.y),
               get_interval(normalize(dSelf), dArg.v.exp.x),
               LAMBDA ix, iy :
         (ix.finlb /\ ix.finub /\ ~iy.finub) =>
           /\ get_interval(dbm, dArg.v.exp.x).finub
           /\ get_interval(dbm, dArg.v.exp.x).ub = ix.ub + dArg.v.exp.k)

\* y - x <= k with k not 0 was added to a state with x in [l,u], u not 0,
\* and y without an upper bound.
C15_Witness ==
  /\ LastOp("+=") /\ SignedDiff(dArg.v) /\ dArg.v.exp.k # 0 /\ ~dSelf.bottom /\ ~dbm.bottom
  /\ get_interval(normalize(dSelf), dArg.v.exp.y).finlb
  /\ get_interval(normalize(dSelf), dArg.v.exp.y).finub
  /\ get_interval(normalize(dSelf), dArg.v.exp.y).ub # 0
  /\ ~get_interval(normalize(dSelf), dArg.v.exp.x).finub
  /\ get_interval(dbm, dArg.v.exp.x).finub

\* The state of BoundsExample after forget(x).
ForgetExample == forget(BoundsExample, 1)

\* C16: in the state built from top by x <= 5, x >= 2, y - x <= 3, forget(x)
\* leaves y the upper bound 8 that the difference gave it; forget of a
\* variable leaves the bounds of every other variable as they are in the
\* normalized state.
C16_ForgetKeepsBounds ==
  /\ get_interval(ForgetExample, 2) = [finlb |-> FALSE, lb |-> 0, finub |-> TRUE, ub |-> 8]
  /\ 1 \notin DOMAIN ForgetExample.vert_map
  /\ (LastOp("forget") /\ ~dSelf.bottom) =>
       \A v \in DVars \ {dArg.x} :
         get_interval(dbm, v) = get_interval(normalize(dSelf), v)

\* C16 as stated: after forget(x) the upper bound of y is +oo, in the state
\* of the claim and wherever y was related to the forgotten x.
C16_ForgetDropsUpperBound ==
  /\ ~get_interval(ForgetExample, 2).finub
  /\ (LastOp("forget") /\ ~dSelf.bottom) =>
       \A v \in DVars \ {dArg.x} :
         HasRel(normalize(dSelf), dArg.x, v) => ~get_interval(dbm, v).finub

\* A variable related to another one was forgotten and the other one has
\* an upper bound.
C16_Witness ==
  /\ LastOp("forget") /\ ~dSelf.bottom
  /\ \E v \in DVars \ {dArg.x} :
       /\ HasRel(normalize(dSelf), dArg.x, v)
       /\ get_interval(dbm, v).finub
  /\ dArg.x \notin DOMAIN dbm.vert_map

\* The edges of a state by the names of the variables, 0 for the zero
\* vertex.
NameOf(d, v) == IF v = 0 THEN 0 ELSE d.rev_map[v]
NamedEdges(d) ==
  {<<NameOf(d, p[1]), NameOf(d, p[2]), d.g.E[p]>> : p \in DOMAIN d.g.E}

\* A step of the chain from a state that is not bottom adds no variable,
\* adds no edge and changes no weight, and the edges it keeps are edges of
\* the normalized right operand of at most the same weight.
WidenShrinks ==
  ~dbm.bottom =>
    /\ ~dbm'.bottom
    /\ DOMAIN dbm'.vert_map \subseteq DOMAIN dbm.vert_map
    /\ NamedEdges(dbm') \subseteq NamedEdges(dbm)
    /\ ~dArg'.v.bottom =>
         \A e \in NamedEdges(dbm') :
           \E f \in NamedEdges(normalize(dArg'.v)) : f[1] = e[1] /\ f[2] = e[2] /\ f[3] <= e[3]
WidenSame ==
  /\ DOMAIN dbm'.vert_map = DOMAIN dbm.vert_map
  /\ NamedEdges(dbm') = NamedEdges(dbm)

\* C17: widening chains stabilize: along s(k+1) = s(k).widen(t(k+1)), for
\* any s0 and any operands t, widen adds no edge and tightens no weight of
\* its left operand and keeps an edge only if the weight of o is at most
\* that of self, and from some step on the variables and the edges of the
\* chain do not change any more.
C17_WidenChainStabilizes == [][WidenShrinks]_vars /\ <>[][WidenSame]_vars

\* A step of the chain has dropped an edge of a state that had itself come
\* out of widen, and has kept another one.
C17_Witness ==
  /\ dOp = "widen" /\ ~dSelf.bottom /\ ~dArg.v.bottom
  /\ dSelf.unstable # {}
  /\ NamedEdges(dbm) # NamedEdges(dSelf)
  /\ NamedEdges(dbm) # {}

\* C18: narrowing returns bottom if either operand is bottom, o if self is
\* top, and otherwise a state equal to self (self, normalized); so the
\* meet is below the narrowing and the narrowing below self in the
\* implemented order.
C18_NarrowBetweenMeetAndSelf ==
  LastOp("narrow") =>
    /\ (dSelf.bottom \/ dArg.v.bottom) => dbm.bottom
    /\ (~dSelf.bottom /\ ~dArg.v.bottom /\ is_top(dSelf)) => dbm = dArg.v
    /\ (~dSelf.bottom /\ ~dArg.v.bottom /\ ~is_top(dSelf)) =>
         /\ dbm = normalize(dSelf)
         /\ dbm_leq(dbm, dSelf) /\ dbm_leq(dSelf, dbm)
    /\ dbm_leq(dbm_meet(dSelf, dArg.v), dbm)
    /\ dbm_leq(dbm, dSelf)

\* A narrowing of a state that widen left un-normalized, with an operand
\* that the meet takes into account and the narrowing does not.
C18_Witness ==
  /\ LastOp("narrow") /\ ~dSelf.bottom /\ ~dArg.v.bottom
  /\ ~is_top(dSelf) /\ ~is_top(dArg.v)
  /\ dSelf.unstable # {} /\ dbm # dSelf
  /\ ~dbm_leq(dbm, dbm_meet(dSelf, dArg.v))

(***************************************************************************)
(* The counter loop: the entry state has i = 0, the entry block leaves it  *)
(* or adds 1 to it (i := c on the edge into the head 1, c = 0 or 1), and    *)
(* every path around the cycle adds 1.  The cycle is the head alone, which *)
(* adds 1 itself (post[1] is the state on the back edge after i := i + 1),  *)
(* or an empty head with two branches that add 1 each (post[1] is the      *)
(* state at the head).                                                     *)
(***************************************************************************)
CounterStart == Len(prog.code[0])
CounterSelfLoop ==
  /\ prog.wto = ShapeSelfLoop.wto
  /\ prog.setup_entry = <<0, 0>>
  /\ prog.code[0] \in {<<>>, <<Inc>>}
  /\ prog.code[1] = <<Inc>>
CounterBranches ==
  /\ prog.wto = ShapeTwoBranches.wto
  /\ prog.setup_entry = <<0, 0>>
  /\ prog.code[0] \in {<<>>, <<Inc>>}
  /\ prog.code[1] = <<>> /\ prog.code[2] = <<Inc>> /\ prog.code[3] = <<Inc>>
\* The increasing phase of the cycle of head 1 is over.
IncreasingDone ==
  \/ stack # <<>> /\ Frame.head = 1 /\ Frame.phase = "dec"
  \/ stack = <<>> /\ pc > MatchEnd(prog, 2)

\* C19: for a counter loop analysed with widening delay 1, the increasing
\* phase at the head has its post-fixpoint at the end of iteration 3 at the
\* latest; from then on, through the decreasing phase and on return, the
\* pre of the head is [c, +oo] and its post has the lower bound of the
\* counter and no upper bound.
C19_CounterLoop ==
  (CounterSelfLoop \/ CounterBranches) =>
    /\ (AtEnd("inc") /\ Frame.iteration >= 3) => leq(new_pre, Frame.pre)
    /\ IncreasingDone =>
         /\ _pre[1] = <<CounterStart, PosInf>>
         /\ CounterSelfLoop => _post[1] = <<CounterStart + 1, PosInf>>
         /\ CounterBranches => _post[1] = <<CounterStart, PosInf>>

\* The analysis of the loop with i := 0 has returned after a third
\* increasing iteration and a decreasing phase.
C19_Witness ==
  /\ CounterBranches /\ CounterStart = 0 /\ Returned
  /\ _post[1] = <<0, PosInf>>

\* C20: operator+= with an unsigned inequality, strict or not, leaves the
\* state as it is: no edge added or tightened, no change to bottom.
C20_UnsignedLeavesState ==
  (LastOp("+=") /\ ~dArg.v.signed) => dbm = dSelf

(***************************************************************************)
(* Further claims about the CFG.                                           *)
(***************************************************************************)
\* C21: simplify() is idempotent: on a CFG that simplify() has returned, a
\* second simplify() completes and changes neither the blocks, the edges,
\* the statements, nor entry and exit.
C21_SimplifyIdempotent ==
  SimplifyReturned => simplify(cfg) = [c |-> cfg, err |-> FALSE]

\* C21 witness: the first simplify() has merged a cycle of two blocks into
\* one block with a self loop that holds the statements of both.
C21_Witness ==
  /\ SimplifyReturned
  /\ \E a \in cfg.m_blocks : Len(cfg.m_ts[a]) = 2 /\ a \in cfg.m_next[a]

C22_Step ==
  \A l \in Labels :
    /\ (/\ lastOp' = "remove"
        /\ (l = cfg.m_entry \/ l = cfg.m_exit \/ l \notin cfg.m_blocks)
        /\ DoRemove(l)) => (aborted' /\ cfg' = cfg)
    /\ (lastOp' = "get_node" /\ l \notin cfg.m_blocks /\ DoGetNode(l))
         => (aborted' /\ cfg' = cfg)
    /\ (lastOp' = "build" /\ l \in cfg.m_blocks /\ DoInsert(l))
         => (~aborted' /\ cfg' = cfg)

\* C22: programmer errors abort without modifying the CFG: remove(entry),
\* remove(exit), and remove(l) and get_node(l) for a label l that is no key
\* of the block map end in the error outcome with every block, statement
\* and edge as before; insert(l) for an existing label leaves the block, its
\* statements and its edges unchanged and is no error.
C22_ErrorsLeaveCfg == [][C22_Step]_vars

\* C22 witness: remove of entry or exit has ended in the error outcome on a
\* CFG where every label is a block and entry has a successor to lose.
C22_Witness ==
  /\ lastOp = "remove" /\ aborted
  /\ cfg.m_blocks = Labels
  /\ cfg.m_next[cfg.m_entry] # {} /\ cfg.m_prev[cfg.m_exit] # {}

\* C26: simplify() never tries to delete the entry block: it completes
\* without the "Cannot remove entry block" error and entry stays a block.
C26_SimplifyKeepsEntry ==
  lastOp = "simplify" => (~aborted /\ cfg.m_entry \in cfg.m_blocks)

(***************************************************************************)
(* Further claims about SplitDBM.                                          *)
(***************************************************************************)
\* C23: in every non-bottom state reached by set, assign, +=, forget,
\* rename, join, meet, widen and narrow, vert_map is injective and never
\* maps a variable to vertex 0, rev_map[0] is none, and for every vertex i
\* and variable v, rev_map[i] = v if and only if vert_map[v] = i.
C23_MapsConsistent ==
  ~dbm.bottom =>
    /\ \A u \in DOMAIN dbm.vert_map : \A v \in DOMAIN dbm.vert_map :
         dbm.vert_map[u] = dbm.vert_map[v] => u = v
    /\ \A v \in DOMAIN dbm.vert_map :
         dbm.vert_map[v] # 0 /\ dbm.vert_map[v] \in DOMAIN dbm.rev_map
    /\ dbm.rev_map[0] = 0
    /\ \A i \in DOMAIN dbm.rev_map : \A v \in DVars :
         (dbm.rev_map[i] = v) <=> (v \in DOMAIN dbm.vert_map /\ dbm.vert_map[v] = i)

\* C23 witness: an assignment has moved a variable to a new vertex and
\* cleared its old one, with the other variable still in the maps.
C23_Witness ==
  /\ LastOp("assign") /\ ~dbm.bottom
  /\ DOMAIN dbm.vert_map = DVars
  /\ \E i \in DOMAIN dbm.rev_map \ {0} : dbm.rev_map[i] = 0
  /\ dArg.x \in DOMAIN dSelf.vert_map
  /\ dbm.vert_map[dArg.x] # dSelf.vert_map[dArg.x]

(***************************************************************************)
(* diffcsts_of_assign as assign calls it: on the normalized state, once    *)
(* for the lower and once for the upper bounds.  The bound that a term     *)
(* needs is the upper bound of its variable for the upper direction and a  *)
(* positive coefficient or the lower direction and a negative one, the     *)
(* lower bound otherwise.                                                  *)
(***************************************************************************)
NeededBound(d, e, y, up) ==
  IF (e.terms[y] < 0) = up
  THEN [fin |-> get_interval(d, y).finlb, val |-> get_interval(d, y).lb]
  ELSE [fin |-> get_interval(d, y).finub, val |-> get_interval(d, y).ub]
AllBounded(d, e, up) == \A y \in DOMAIN e.terms : NeededBound(d, e, y, up).fin
ConversionOverflows(e) == ~Fits(e.constant) \/ \E y \in DOMAIN e.terms : ~Fits(e.terms[y])
Residual(d, e, up) ==
  e.constant + SumOf([y \in DOMAIN e.terms |-> e.terms[y] * NeededBound(d, e, y, up).val])
Emitted(d, e, up) ==
  LetVal(diffcsts_of_assign(d, e, up), LAMBDA diffs : {diffs[i] : i \in 1 .. Len(diffs)})
AssignCalled == LastOp("assign") /\ ~dSelf.bottom

\* C24 (as claimed): when every variable of e has the bound it needs, the
\* constraint emitted for each term c.y with c > 0 is
\* x - y <= residual - c * bound(y), for residual = c0 + the sum of the
\* c.bound(y) of all terms.
C24_ResidualMinusTerm ==
  AssignCalled =>
    LetVal(normalize(dSelf), LAMBDA n :
      \A up \in BOOLEAN :
        (~ConversionOverflows(dArg.v) /\ AllBounded(n, dArg.v, up)) =>
          Emitted(n, dArg.v, up) =
            {<<y, Residual(n, dArg.v, up) - dArg.v.terms[y] * NeededBound(n, dArg.v, y, up).val>> :
               y \in {z \in DOMAIN dArg.v.terms : dArg.v.terms[z] > 0}})

\* C24: when every variable of e has the bound it needs, the constraint
\* emitted for each term c.y with c > 0 is x - y <= residual - bound(y), for
\* residual = c0 + the sum of the c.bound(y) of all terms: the term of y
\* stays in the bound with the coefficient c - 1.
C24_ResidualMinusBound ==
  AssignCalled =>
    LetVal(normalize(dSelf), LAMBDA n :
      \A up \in BOOLEAN :
        (~ConversionOverflows(dArg.v) /\ AllBounded(n, dArg.v, up)) =>
          Emitted(n, dArg.v, up) =
            {<<y, Residual(n, dArg.v, up) - NeededBound(n, dArg.v, y, up).val>> :
               y \in {z \in DOMAIN dArg.v.terms : dArg.v.terms[z] > 0}})

\* C24 witness: an assignment whose expression has a term 2.y, with y
\* bounded above by a non-zero bound, and every other variable bounded.
C24_Witness ==
  /\ AssignCalled /\ ~ConversionOverflows(dArg.v)
  /\ AllBounded(normalize(dSelf), dArg.v, TRUE)
  /\ \E y \in DOMAIN dArg.v.terms :
       dArg.v.terms[y] = 2 /\ get_interval(normalize(dSelf), y).ub # 0
  /\ Emitted(normalize(dSelf), dArg.v, TRUE) # {}

\* C25: if the conversion to Wt of the constant or of a coefficient of e
\* overflows, diffcsts_of_assign emits no constraint, in either direction.
C25_OverflowEmitsNothing ==
  (AssignCalled /\ ConversionOverflows(dArg.v)) =>
    \A up \in BOOLEAN : Emitted(normalize(dSelf), dArg.v, up) = {}

(***************************************************************************)
(* Further claims about the forward fixpoint iterator.                     *)
(***************************************************************************)
\* C27: when run_forward_analyzer returns, the state the analysis started
\* from is still below the pre state of the entry label:
\* setup_entry() <= pre[entry], also when the entry label is the head of a
\* cycle of the order.
C27_EntryStateKept == Returned => leq(prog.setup_entry, _pre[prog.entry])

\* The labels the iterator visits: those not ordered before the entry, and the
\* heads of the cycles the entry is in.
Visited(p, n) ==
  \/ PosOf(p, n) >= PosOf(p, p.entry)
  \/ p.wto[PosOf(p, n)].kind = "begin" /\ is_member(p, PosOf(p, n), p.entry)

\* C28: when run_forward_analyzer returns, the post state of every visited
\* label is the result of running the label's instructions, in order, on
\* its pre state, and every skipped label has pre = post = bottom.
C28_TablesConsistent ==
  Returned =>
    \A v \in prog.blocks :
      IF Visited(prog, v)
        THEN _post[v] = RunBlock(_pre[v], prog.code[v])
        ELSE is_bottom(_pre[v]) /\ is_bottom(_post[v])
\* a run that skipped a block and a cycle, whose join with the skipped
\* predecessor gave a block a pre state that its instructions change
C28_Witness ==
  /\ Returned
  /\ \E v \in prog.blocks : ~Visited(prog, v) /\ prog.wto[PosOf(prog, v)].kind = "begin"
  /\ \E v \in prog.blocks :
        /\ Visited(prog, v) /\ v # prog.entry
        /\ \E a \in prev_nodes(prog, v) : ~Visited(prog, a)
        /\ ~is_bottom(_post[v]) /\ _post[v] # _pre[v]
\* a run over a cycle whose head was stabilised by widening and refined
C28_WitnessCycle ==
  /\ Returned
  /\ \E v \in prog.blocks :
        /\ prog.wto[PosOf(prog, v)].kind = "begin"
        /\ ~is_bottom(_post[v]) /\ _post[v] # _pre[v] /\ _pre[v][2] # PosInf
        /\ Len(prog.code[v]) = 2

(***************************************************************************)
(* Further claims about SplitDBM: the unstable set of widen, and the       *)
(* bitwise apply overloads.                                                *)
(***************************************************************************)
WidenCalled == LastOp("widen") /\ ~dSelf.bottom /\ ~dArg.v.bottom

\* C29: the unstable set of the state widen returns refers to the result's
\* own vertices: every id in it is a vertex of the result graph, and an id
\* inherited from self's unstable set denotes in the result the variable
\* it denoted in self.
C29_UnstableOfResult ==
  WidenCalled =>
    /\ dbm.unstable \subseteq verts(dbm.g)
    /\ \A i \in dSelf.unstable :
          /\ i \in DOMAIN dbm.rev_map /\ i \in DOMAIN dSelf.rev_map
          /\ dbm.rev_map[i] = dSelf.rev_map[i]

\* The interval x is left with by an operation whose computed interval is xi.
LeavesWith(d, x, xi) ==
  IF itv_is_bottom(xi) THEN d.bottom ELSE ~d.bottom /\ get_interval(d, x) = xi
PreItv(v) == get_interval(normalize(dSelf), v)

\* C30: both bitwise apply overloads compute on the intervals the operands
\* have in the state before the call: apply(op, x, y, z) leaves x with
\* op(I(y), I(z)) and apply(op, x, y, k) with op(I(y), [k, k]), also when x
\* is y or z; the two overloads leave the same state when I(z) is the
\* singleton k.
C30_BitwiseOnPreState ==
  /\ (LastOp("apply_bitwise") /\ ~dSelf.bottom) =>
        /\ LeavesWith(dbm, dArg.x,
                      itv_bitwise(dArg.v.op, PreItv(dArg.v.y), PreItv(dArg.v.z)))
        /\ itv_is_singleton(PreItv(dArg.v.z)) /\ PreItv(dArg.v.z).lb \in Consts =>
              get_interval(dbm, dArg.x) =
                get_interval(apply_bitwise_num(dSelf, dArg.v.op, dArg.x, dArg.v.y,
                                               PreItv(dArg.v.z).lb), dArg.x)
  /\ (LastOp("apply_bitwise_num") /\ ~dSelf.bottom) =>
        LeavesWith(dbm, dArg.x,
                   itv_bitwise(dArg.v.op, PreItv(dArg.v.y), Itv(dArg.v.k, dArg.v.k)))

====
